---- MODULE Spec2Model ----
(***************************************************************************)
(* The event publishing pipeline of libbeat: the memory queue's producer   *)
(* side (publisher/queue/memqueue/produce.go and internal_api.go), the     *)
(* queue test workers (publisher/queue/queuetest) and the memory queue's   *)
(* broker.  The broker's run loop is not among the source files; it is     *)
(* modelled from section 4.1 of the specification.  The disk queue's       *)
(* NewQueue (publisher/queue/diskqueue/queue.go) is modelled from its      *)
(* source; its core loop and its reader, writer and deleter loops are      *)
(* modelled from sections 3, 4.2 and 7 of the specification.  The pipeline *)
(* and its clients are modelled from section 4.3 over the discarding test  *)
(* queue of publisher/pipeline/pipeline_test.go.  The Config of the docker *)
(* autodiscover provider and its Validate are modelled from their source.  *)
(***************************************************************************)
EXTENDS Integers, Sequences, FiniteSets, TLC

\* ------------------------------------------------------------------ bounds

\* Publish/TryPublish calls the producers make, all together.
MaxCalls == 3
\* Capacity of the buffered push channel (openState.events).
PushChanCap == 1
\* Largest `events` setting (ring size) a queue is constructed with.
MaxEventsSetting == 2
\* The batch size the consumers ask for when they limit their batches.
BatchSize == 1

\* Clients the pipeline test connects (n in TestPipelineAcceptsAnyNumberOfClients).
MaxClients == 3
\* Events a client of the pipeline test publishes.
MaxPublishes == 1
\* Close calls the pipeline test makes on one client.
MaxCloses == 2
\* Largest WaitClose setting, in ticks of the clock.
MaxWaitClose == 2

Producers == {1, 2}
Consumers == {1, 2}

\* Get(batchSize) arguments of the test consumers: -1 asks for a complete batch.
GetSizes == {-1, BatchSize}

\* ------------------------------------------------------------------- state

VARIABLES
    settings,       \* Settings{Events, MaxGetRequest, FlushTimeout}
    quota,          \* the number of events the test producers publish (maxEvents)
    batchSize,      \* the batchSize the consumers were made with
    hasCB,          \* hasCB[p]: the producer was created with an ACK callback
    pc,             \* where producer p's caller is inside Publish/TryPublish
    calls,          \* Publish/TryPublish calls started so far
    producedCount,  \* ackProducer.producedCount
    stDone,         \* openState.done is closed
    eventsNil,      \* openState.events was set to nil
    resp,           \* the response channel of p's current request (capacity 1)
    closeAck,       \* history: the sum of p's callback counts when p was closed
    pushChan,       \* broker.pushChan
    buf,            \* the ring, indexed by entry ID modulo settings.events
    head,           \* next free slot (entry ID)
    consumed,       \* next unread entry
    acked,          \* next unacked entry
    inserted,       \* events of p the broker inserted
    closing,        \* Queue.Close was processed by the broker (closingChan is closed)
    queueDone,      \* the channel of Queue.Done is closed
    pendingGet,     \* the get request waiting for the flush timer, if any
    batches,        \* batches handed to consumers and not yet acknowledged
    lastACK,        \* produceState.lastACK
    ackLog,         \* the counts passed to p's ACK callback, in order
    cpc,            \* where consumer c is
    cbatch,         \* the batch consumer c holds
    delivered,      \* delivered[id]: how many batches entry id was delivered in
    dupDone,        \* Done was called a second time on some batch
    dqStatus,       \* disk queue: "none" (not constructed), "up" or "error" (NewQueue failed)
    dqSettings,     \* disk queue: diskQueue.settings
    segFiles,       \* disk queue: the segment files of the directory, by ascending id
    stateFile,      \* disk queue: the position stored in the state file
    segments,       \* disk queue: diskQueue.segments
    acks,           \* disk queue: diskQueue.acks
    pendingFrames,  \* disk queue: diskQueue.pendingFrames
    writeRequest,   \* disk queue: the frames of the request the writer loop holds
    blockedProducers, \* disk queue: diskQueue.blockedProducers
    outstanding,    \* disk queue: frames handed to consumers and not yet acknowledged
    dqHist,         \* disk queue: history of publishes, deliveries, ACKs and crashes
    pipeline,       \* the pipeline of the pipeline tests, its clients and its test queue
    plClient,       \* plClient[p]: the pipeline client that owns producer p, if any
    config          \* the Config of the docker autodiscover provider

prodVars == <<hasCB, pc, calls, producedCount, stDone, eventsNil, resp, closeAck>>
brokerVars == <<settings, pushChan, buf, head, consumed, acked, inserted,
                closing, queueDone, pendingGet, batches, lastACK, ackLog>>
consVars == <<quota, batchSize, cpc, cbatch, delivered, dupDone>>
dqVars == <<dqStatus, dqSettings, segFiles, stateFile, segments, acks, pendingFrames,
            writeRequest, blockedProducers, outstanding, dqHist>>
memVars == <<prodVars, brokerVars, consVars>>
plVars == <<pipeline, plClient>>
cfgVars == <<config>>
vars == <<prodVars, brokerVars, consVars, dqVars, plVars, cfgVars>>

\* The clients the pipeline test connects.
PlClients == 1 .. MaxClients

NoPlClient == [state |-> "none", published |-> 0, refused |-> 0,
               closes |-> 0, producerCloses |-> 0,
               acked |-> 0, abandoned |-> 0, waited |-> 0]

\* Settings{}: the zero value.
ZeroSettings == [WaitClose |-> 0, WaitCloseMode |-> "NoWaitOnClose"]

\* No pipeline was made.
NoPipeline == [status |-> "none", wg |-> 0, producerID |-> 0, panicked |-> FALSE,
               settings |-> ZeroSettings, waited |-> 0,
               clients |-> [c \in PlClients |-> NoPlClient]]

\* No Config was made.
NoConfig == [status |-> "none", Prefix |-> <<>>]

NoEntry == [used |-> FALSE, producer |-> 0, producerID |-> 0]
NoGet == [consumer |-> 0, entryCount |-> 0]
NoBatch == [start |-> 0, count |-> 0]

Min(a, b) == IF a < b THEN a ELSE b
Max(a, b) == IF a > b THEN a ELSE b

RECURSIVE Sum(_)
Sum(s) == IF s = <<>> THEN 0 ELSE Head(s) + Sum(Tail(s))

\* ---------------------------------------------------------------- producers

\* newProducer: an ackProducer when a callback is given, else a forgetfulProducer.
newProducer(cb) ==
    [hasCB |-> cb, producedCount |-> 0, lastACK |-> 0, done |-> FALSE, eventsNil |-> FALSE]

\* makePushRequest numbering the events from 0: the "+ 1" is missing.
makePushRequestNoInc(p) ==
    IF hasCB[p]
    THEN [resp |-> p, producer |-> p, producerID |-> producedCount[p]]
    ELSE [resp |-> p, producer |-> 0, producerID |-> 0]

\* makePushRequest giving every event the first ID.
makePushRequestFirst(p) ==
    IF hasCB[p]
    THEN [resp |-> p, producer |-> p, producerID |-> 1]
    ELSE [resp |-> p, producer |-> 0, producerID |-> 0]

\* makePushRequest skipping an ID: "+ 2" for "+ 1".
makePushRequestSkip(p) ==
    IF hasCB[p]
    THEN [resp |-> p, producer |-> p, producerID |-> producedCount[p] + 2]
    ELSE [resp |-> p, producer |-> 0, producerID |-> 0]

\* A forgetfulProducer whose requests name the other producer.
makePushRequestOther(p) ==
    IF hasCB[p]
    THEN [resp |-> p, producer |-> p, producerID |-> producedCount[p] + 1]
    ELSE [resp |-> p, producer |-> CHOOSE q \in Producers : q # p, producerID |-> 1]

\* ackProducer.makePushRequest / forgetfulProducer.makePushRequest.
makePushRequest(p) ==
    IF hasCB[p]
    THEN [resp |-> p, producer |-> p, producerID |-> producedCount[p] + 1]
    ELSE [resp |-> p, producer |-> 0, producerID |-> 0]

\* The pipeline client of producer p gets the result of its call: in DropIfFull
\* mode a refused event is counted as dropped, and the client goes on with the
\* next event.
clientPublished(p, ok) ==
    IF plClient[p].mode = "DropIfFull" /\ ~ok
    THEN [plClient EXCEPT ![p].dropped = @ + 1]
    ELSE plClient

\* Publish/TryPublish forgetting producedCount++.
ReturnUncounted(p, ok) ==
    /\ pc' = [pc EXCEPT ![p] = "idle"]
    /\ resp' = [resp EXCEPT ![p] = <<>>]
    /\ plClient' = clientPublished(p, ok)
    /\ UNCHANGED producedCount

\* Publish/TryPublish counting every call, also a refused one.
ReturnCountsRefused(p, ok) ==
    /\ pc' = [pc EXCEPT ![p] = "idle"]
    /\ resp' = [resp EXCEPT ![p] = <<>>]
    /\ producedCount' = [producedCount EXCEPT ![p] = IF hasCB[p] THEN @ + 1 ELSE @]
    /\ plClient' = clientPublished(p, ok)

\* The call returns ok; an ackProducer counts the published event.  The
\* request's response channel is dropped with the request.
Return(p, ok) ==
    /\ pc' = [pc EXCEPT ![p] = "idle"]
    /\ resp' = [resp EXCEPT ![p] = <<>>]
    /\ producedCount' = [producedCount EXCEPT ![p] = IF ok /\ hasCB[p] THEN @ + 1 ELSE @]
    /\ plClient' = clientPublished(p, ok)

\* The case st.events <- req can proceed.
CanSend(p) == ~eventsNil[p] /\ Len(pushChan) < PushChanCap

\* publish / tryPublish, case st.events <- req: then wait for the response.
caseSend(p, w) ==
    /\ CanSend(p)
    /\ pushChan' = Append(pushChan, makePushRequest(p))
    /\ pc' = [pc EXCEPT ![p] = w]
    /\ UNCHANGED <<producedCount, eventsNil, resp, plClient>>

\* publish / tryPublish, case <-st.done.
caseDone(p) ==
    /\ stDone[p]
    /\ eventsNil' = [eventsNil EXCEPT ![p] = TRUE]
    /\ Return(p, FALSE)
    /\ UNCHANGED pushChan

\* publish, case <-st.queueClosing.
caseQueueClosing(p) ==
    /\ closing
    /\ eventsNil' = [eventsNil EXCEPT ![p] = TRUE]
    /\ Return(p, FALSE)
    /\ UNCHANGED pushChan

\* tryPublish, default case: taken only when no other case is ready.
caseDefault(p) ==
    /\ ~CanSend(p)
    /\ ~stDone[p]
    /\ Return(p, FALSE)
    /\ UNCHANGED <<pushChan, eventsNil>>

\* No case of publish's select is ready: the caller blocks in it.
caseBlock(p) ==
    /\ ~CanSend(p)
    /\ ~stDone[p]
    /\ ~closing
    /\ pc' = [pc EXCEPT ![p] = "select"]
    /\ UNCHANGED <<pushChan, producedCount, eventsNil, resp, plClient>>

producerFrame ==
    /\ UNCHANGED <<hasCB, stDone, closeAck>>
    /\ UNCHANGED <<settings, buf, head, consumed, acked, inserted, closing,
                   queueDone, pendingGet, batches, lastACK, ackLog>>
    /\ UNCHANGED consVars
    /\ UNCHANGED <<dqVars, pipeline, cfgVars>>

\* ackProducer.Publish / forgetfulProducer.Publish: openState.publish is
\* entered and its select is evaluated.
Publish(p) ==
    /\ pc[p] = "idle"
    /\ calls < quota
    /\ calls' = calls + 1
    /\ \/ caseSend(p, "wait")
       \/ caseDone(p)
       \/ caseQueueClosing(p)
       \/ caseBlock(p)
    /\ producerFrame

\* openState.publish: a caller blocked in the select proceeds.
publish(p) ==
    /\ pc[p] = "select"
    /\ UNCHANGED calls
    /\ \/ caseSend(p, "wait")
       \/ caseDone(p)
       \/ caseQueueClosing(p)
    /\ producerFrame

\* ackProducer.TryPublish / forgetfulProducer.TryPublish: openState.tryPublish
\* is entered and its select is evaluated.
TryPublish(p) ==
    /\ pc[p] = "idle"
    /\ calls < quota
    /\ calls' = calls + 1
    /\ \/ caseSend(p, "trywait")
       \/ caseDone(p)
       \/ caseDefault(p)
    /\ producerFrame

\* An inner select that does not wait for the response to be there.
waitRespEarly(p) ==
    /\ pc[p] \in {"wait", "trywait"}
    /\ Return(p, TRUE)
    /\ UNCHANGED <<calls, eventsNil, pushChan>>
    /\ producerFrame

\* publish / tryPublish, inner case resp := <-req.resp.
waitResp(p) ==
    /\ pc[p] \in {"wait", "trywait"}
    /\ resp[p] # <<>>
    /\ Return(p, TRUE)
    /\ UNCHANGED <<calls, eventsNil, pushChan>>
    /\ producerFrame

\* The inner select without its queueClosing case.
waitQueueClosingMissing(p) ==
    /\ FALSE
    /\ UNCHANGED vars

\* publish / tryPublish, inner case <-st.queueClosing.
waitQueueClosing(p) ==
    /\ pc[p] \in {"wait", "trywait"}
    /\ closing
    /\ eventsNil' = [eventsNil EXCEPT ![p] = TRUE]
    /\ Return(p, FALSE)
    /\ UNCHANGED <<calls, pushChan>>
    /\ producerFrame

\* A Close that also resets the producer's ACK state.
CloseForgetsACKs(p) ==
    /\ ~stDone[p]
    /\ stDone' = [stDone EXCEPT ![p] = TRUE]
    /\ closeAck' = [closeAck EXCEPT ![p] = Sum(ackLog[p])]
    /\ lastACK' = [lastACK EXCEPT ![p] = 0]
    /\ UNCHANGED <<hasCB, pc, calls, producedCount, eventsNil, resp>>
    /\ UNCHANGED <<settings, pushChan, buf, head, consumed, acked, inserted,
                   closing, queueDone, pendingGet, batches, ackLog>>
    /\ UNCHANGED consVars
    /\ UNCHANGED <<dqVars, plVars, cfgVars>>

\* ackProducer.Close / forgetfulProducer.Close / openState.Close: close(st.done).
Close(p) ==
    /\ ~stDone[p]
    /\ stDone' = [stDone EXCEPT ![p] = TRUE]
    /\ closeAck' = [closeAck EXCEPT ![p] = Sum(ackLog[p])]
    /\ UNCHANGED <<hasCB, pc, calls, producedCount, eventsNil, resp>>
    /\ UNCHANGED <<brokerVars, consVars>>
    /\ UNCHANGED <<dqVars, plVars, cfgVars>>

\* ------------------------------------------------------------------- broker

\* The ring slot of entry id.
Slot(id) == id % settings.events

\* Entries available to consumers once the head is hd.
Available(hd) == hd - consumed

\* getRequest.entryCount as the broker uses it: a count that is not positive
\* or exceeds maxGetRequest means the maximum batch size.
EntryCount(sz) ==
    IF sz <= 0 \/ sz > settings.maxGetRequest THEN settings.maxGetRequest ELSE sz

\* GetReply handing out the batch from the acked cursor: entries already
\* delivered are delivered again.
GetReplyAgain(c, n, hd) ==
    LET size == Min(n, hd - acked)
        b == [start |-> acked, count |-> size] IN
    /\ batches' = Append(batches, [start |-> b.start, count |-> b.count, done |-> FALSE])
    /\ consumed' = consumed + Min(n, Available(hd))
    /\ cbatch' = [cbatch EXCEPT ![c] = b]
    /\ cpc' = [cpc EXCEPT ![c] = "batch"]
    /\ delivered' = [id \in DOMAIN delivered |->
                        IF id >= b.start /\ id < b.start + size
                        THEN delivered[id] + 1 ELSE delivered[id]]

\* GetReply handing out entryCount entries whether or not they are there.
GetReplyWhole(c, n, hd) ==
    LET b == [start |-> consumed, count |-> n] IN
    /\ batches' = Append(batches, [start |-> b.start, count |-> b.count, done |-> FALSE])
    /\ consumed' = consumed + n
    /\ cbatch' = [cbatch EXCEPT ![c] = b]
    /\ cpc' = [cpc EXCEPT ![c] = "batch"]
    /\ delivered' = [id \in DOMAIN delivered |->
                        IF id >= b.start /\ id < b.start + n
                        THEN delivered[id] + 1 ELSE delivered[id]]

\* The broker answers consumer c's request for n entries when the head is hd:
\* the batch is the next Min(n, available) entries; it is sent on the
\* request's response channel and remembered until it is acknowledged.
GetReply(c, n, hd) ==
    LET size == Min(n, Available(hd))
        b == [start |-> consumed, count |-> size] IN
    /\ batches' = Append(batches, [start |-> b.start, count |-> b.count, done |-> FALSE])
    /\ consumed' = consumed + size
    /\ cbatch' = [cbatch EXCEPT ![c] = b]
    /\ cpc' = [cpc EXCEPT ![c] = "batch"]
    /\ delivered' = [id \in DOMAIN delivered |->
                        IF id >= b.start /\ id < b.start + size
                        THEN delivered[id] + 1 ELSE delivered[id]]

\* A broker that answers every get request at once.
GetRequestShouldBlockNever(n, hd) == FALSE

\* A get request blocks when a flush timeout is configured and fewer than
\* entryCount events are available.
GetRequestShouldBlock(n, hd) ==
    settings.flushTimeout > 0 /\ Available(hd) < n

\* A broker that takes push requests whatever the ring holds.
QueueFullNever == FALSE

\* The ring holds `events` entries that are not yet acknowledged.
QueueFull == head - acked >= settings.events

\* The broker takes the next request from pushChan.  Push requests are taken
\* only while the queue is neither full nor closing.  The entry is stored at
\* the head, its ID is sent on the request's response channel, and a get
\* request waiting for this many events is answered.
HandleInsert ==
    /\ pushChan # <<>>
    /\ ~closing
    /\ ~queueDone
    /\ ~QueueFull
    /\ LET req == Head(pushChan) IN
        /\ pushChan' = Tail(pushChan)
        /\ buf' = [buf EXCEPT ![Slot(head)] =
                      [used |-> TRUE, producer |-> req.producer, producerID |-> req.producerID]]
        /\ resp' = [resp EXCEPT ![req.resp] = <<head>>]
        /\ inserted' = [inserted EXCEPT ![req.resp] = @ + 1]
        /\ head' = head + 1
        /\ IF pendingGet # NoGet /\ Available(head + 1) >= pendingGet.entryCount
           THEN /\ GetReply(pendingGet.consumer, pendingGet.entryCount, head + 1)
                /\ pendingGet' = NoGet
           ELSE UNCHANGED <<pendingGet, batches, consumed, cbatch, cpc, delivered>>
    /\ UNCHANGED <<hasCB, pc, calls, producedCount, stDone, eventsNil, closeAck>>
    /\ UNCHANGED <<settings, acked, closing, queueDone, lastACK, ackLog>>
    /\ UNCHANGED <<quota, batchSize, dupDone>>
    /\ UNCHANGED <<dqVars, plVars, cfgVars>>

\* The broker takes consumer c's get request.  Get requests are taken only
\* when unread entries exist and no earlier request is still waiting.
HandleGetRequest(c) ==
    /\ cpc[c] = "get"
    /\ ~queueDone
    /\ pendingGet = NoGet
    /\ head > consumed
    /\ LET n == EntryCount(batchSize) IN
        IF GetRequestShouldBlock(n, head)
        THEN /\ pendingGet' = [consumer |-> c, entryCount |-> n]
             /\ cpc' = [cpc EXCEPT ![c] = "wait"]
             /\ UNCHANGED <<batches, consumed, cbatch, delivered>>
        ELSE /\ GetReply(c, n, head)
             /\ UNCHANGED pendingGet
    /\ UNCHANGED prodVars
    /\ UNCHANGED <<settings, pushChan, buf, head, acked, inserted, closing,
                   queueDone, lastACK, ackLog>>
    /\ UNCHANGED <<quota, batchSize, dupDone>>
    /\ UNCHANGED <<dqVars, plVars, cfgVars>>

\* The flush timer expires: the waiting request is answered with what is there.
HandleTimeout ==
    /\ pendingGet # NoGet
    /\ ~queueDone
    /\ GetReply(pendingGet.consumer, pendingGet.entryCount, head)
    /\ pendingGet' = NoGet
    /\ UNCHANGED prodVars
    /\ UNCHANGED <<settings, pushChan, buf, head, acked, inserted, closing,
                   queueDone, lastACK, ackLog>>
    /\ UNCHANGED <<quota, batchSize, dupDone>>
    /\ UNCHANGED <<dqVars, plVars, cfgVars>>

\* The number of batches at the front of bs whose Done was called.
RECURSIVE CollectAcked(_)
CollectAcked(bs) ==
    IF bs = <<>> \/ ~Head(bs).done THEN 0 ELSE 1 + CollectAcked(Tail(bs))

RECURSIVE BatchCount(_, _)
BatchCount(bs, n) == IF n = 0 THEN 0 ELSE Head(bs).count + BatchCount(Tail(bs), n - 1)

\* ACK coalescing over the entries acked .. acked+n-1, visited from the last to
\* the first: an entry of a producer with a callback whose producerID is above
\* that producer's lastACK yields one callback with the difference and moves
\* lastACK; the producer's earlier entries are then skipped.
RECURSIVE ProcessACK(_, _, _)
ProcessACK(n, la, cbs) ==
    IF n = 0 THEN [lastACK |-> la, callbacks |-> cbs]
    ELSE LET e == buf[Slot(acked + n - 1)] IN
         IF e.producer = 0 \/ e.producerID <= la[e.producer]
         THEN ProcessACK(n - 1, la, cbs)
         ELSE ProcessACK(n - 1,
                         [la EXCEPT ![e.producer] = e.producerID],
                         Append(cbs, [producer |-> e.producer,
                                      count |-> e.producerID - la[e.producer]]))

RECURSIVE CallbackCounts(_, _)
CallbackCounts(cbs, p) ==
    IF cbs = <<>> THEN <<>>
    ELSE IF Head(cbs).producer = p
         THEN <<Head(cbs).count>> \o CallbackCounts(Tail(cbs), p)
         ELSE CallbackCounts(Tail(cbs), p)

\* A shutdown that completes as soon as the queue is closing.
shutdownCompleteEarly(cl, hd, ak) == cl

\* A shutdown that completes without Close: every entry is acknowledged.
shutdownCompleteUnasked(cl, hd, ak) == hd = ak

\* Shutdown completes: the queue is closing and every entry is acknowledged.
shutdownComplete(cl, hd, ak) == cl /\ hd = ak

\* A Done batch is at the front: the broker advances acked past every batch of
\* the contiguous prefix of acknowledged batches, runs the producers'
\* callbacks and frees the entries.  When the queue is closing and the last
\* entry is acknowledged, shutdown completes.
HandleAck ==
    /\ batches # <<>>
    /\ Head(batches).done
    /\ ~queueDone
    /\ LET k == CollectAcked(batches)
           n == BatchCount(batches, k)
           r == ProcessACK(n, lastACK, <<>>) IN
        /\ batches' = SubSeq(batches, k + 1, Len(batches))
        /\ lastACK' = r.lastACK
        /\ ackLog' = [p \in Producers |-> ackLog[p] \o CallbackCounts(r.callbacks, p)]
        /\ buf' = [s \in DOMAIN buf |->
                      IF \E id \in acked .. (acked + n - 1) : Slot(id) = s
                      THEN NoEntry ELSE buf[s]]
        /\ acked' = acked + n
        /\ queueDone' = shutdownComplete(closing, head, acked + n)
    /\ UNCHANGED prodVars
    /\ UNCHANGED <<settings, pushChan, head, consumed, inserted, closing, pendingGet>>
    /\ UNCHANGED consVars
    /\ UNCHANGED <<dqVars, plVars, cfgVars>>

\* Queue.Close hands the close request to the broker, which processes it:
\* producers stop blocking on the queue (the closing channel is closed), a
\* consumer whose get request waits for its batch to fill is unblocked with a
\* failed Get (multiConsumer returns on the error), and an empty queue is done.
QueueClose ==
    /\ ~closing
    /\ closing' = TRUE
    /\ IF pendingGet # NoGet
       THEN /\ cpc' = [cpc EXCEPT ![pendingGet.consumer] = "stopped"]
            /\ pendingGet' = NoGet
            /\ UNCHANGED <<batches, consumed, cbatch, delivered>>
       ELSE UNCHANGED <<pendingGet, batches, consumed, cbatch, cpc, delivered>>
    /\ queueDone' = shutdownComplete(TRUE, head, acked)
    /\ UNCHANGED prodVars
    /\ UNCHANGED <<settings, pushChan, buf, head, acked, inserted, lastACK, ackLog>>
    /\ UNCHANGED <<quota, batchSize, dupDone>>
    /\ UNCHANGED <<dqVars, plVars, cfgVars>>

\* ---------------------------------------------------------------- consumers

\* Get on a queue that has shut down returns an error; the consumer returns.
GetFail(c) ==
    /\ cpc[c] = "get"
    /\ queueDone
    /\ cpc' = [cpc EXCEPT ![c] = "stopped"]
    /\ UNCHANGED <<prodVars, brokerVars, quota, batchSize, cbatch, delivered, dupDone>>
    /\ UNCHANGED <<dqVars, plVars, cfgVars>>

\* A Done that, when its batch is no longer outstanding, acknowledges the
\* oldest outstanding batch in its place.
MarkDoneStale(bs, b) ==
    IF \E i \in DOMAIN bs : bs[i].start = b.start /\ bs[i].count = b.count
    THEN [i \in DOMAIN bs |-> IF bs[i].start = b.start /\ bs[i].count = b.count
                              THEN [bs[i] EXCEPT !.done = TRUE] ELSE bs[i]]
    ELSE [i \in DOMAIN bs |-> IF i = 1 THEN [bs[i] EXCEPT !.done = TRUE] ELSE bs[i]]

\* batch.Done: the batch is marked acknowledged for the broker.
MarkDone(bs, b) ==
    [i \in DOMAIN bs |-> IF bs[i].start = b.start /\ bs[i].count = b.count
                         THEN [bs[i] EXCEPT !.done = TRUE] ELSE bs[i]]

\* multiConsumer's loop: batch.Done(), then the next b.Get(batchSize).
Done(c) ==
    /\ cpc[c] = "batch"
    /\ batches' = MarkDone(batches, cbatch[c])
    /\ cpc' = [cpc EXCEPT ![c] = "get"]
    /\ cbatch' = [cbatch EXCEPT ![c] = NoBatch]
    /\ UNCHANGED prodVars
    /\ UNCHANGED <<settings, pushChan, buf, head, consumed, acked, inserted,
                   closing, queueDone, pendingGet, lastACK, ackLog>>
    /\ UNCHANGED <<quota, batchSize, delivered, dupDone>>
    /\ UNCHANGED <<dqVars, plVars, cfgVars>>

\* A consumer that calls batch.Done() twice: the first call.
FirstDone(c) ==
    /\ cpc[c] = "batch"
    /\ batches' = MarkDone(batches, cbatch[c])
    /\ cpc' = [cpc EXCEPT ![c] = "again"]
    /\ UNCHANGED prodVars
    /\ UNCHANGED <<settings, pushChan, buf, head, consumed, acked, inserted,
                   closing, queueDone, pendingGet, lastACK, ackLog>>
    /\ UNCHANGED <<quota, batchSize, cbatch, delivered, dupDone>>
    /\ UNCHANGED <<dqVars, plVars, cfgVars>>

\* The second batch.Done() on the same batch, then the next b.Get(batchSize).
SecondDone(c) ==
    /\ cpc[c] = "again"
    /\ batches' = MarkDone(batches, cbatch[c])
    /\ cpc' = [cpc EXCEPT ![c] = "get"]
    /\ cbatch' = [cbatch EXCEPT ![c] = NoBatch]
    /\ dupDone' = TRUE
    /\ UNCHANGED prodVars
    /\ UNCHANGED <<settings, pushChan, buf, head, consumed, acked, inserted,
                   closing, queueDone, pendingGet, lastACK, ackLog>>
    /\ UNCHANGED <<quota, batchSize, delivered>>
    /\ UNCHANGED <<dqVars, plVars, cfgVars>>

\* ------------------------------------------------------------- disk queue

\* Events published to the disk queue, over all runs.
MaxFrames == 3
\* Crashes of the process that owns the queue directory.
MaxCrashes == 2
\* The MaxSegmentSize the running queues are configured with.
DqSegmentSize == 2
\* Frames handed out and not yet acknowledged.
MaxOutstanding == 2
\* Width of the size settings, in bits (uint64 in the program, scaled down).
SizeBits == 4

\* Encoded sizes of the published events.
FrameSizes == {1, DqSegmentSize}

\* Settings{MaxBufferSize, MaxSegmentSize}: every value of the scaled type.
AllDiskSettings ==
    [MaxBufferSize : 0 .. (2 ^ SizeBits - 1), MaxSegmentSize : 0 .. (2 ^ SizeBits - 1)]

\* The settings of the queues that are run: the smallest buffer NewQueue
\* lets through for segments of DqSegmentSize bytes.
RunDiskSettings ==
    {[MaxBufferSize |-> 2 * DqSegmentSize, MaxSegmentSize |-> DqSegmentSize]}

NoDiskSettings == [MaxBufferSize |-> 0, MaxSegmentSize |-> 0]

\* queuePosition{}: the zero position, also what a missing state file gives.
ZeroPosition == [segmentID |-> 0, frameIndex |-> 0, byteIndex |-> 0]

NoSegments == [writing |-> <<>>, reading |-> <<>>, acking |-> <<>>, acked |-> <<>>,
               nextID |-> 0, nextReadPosition |-> 0, nextReadFrameID |-> 0]

NoACKs == [position |-> ZeroPosition, nextFrameID |-> 0, done |-> {}]

\* What the file system does to NewQueue: MkdirAll fails, the state file is
\* loaded ("ok"), missing or unreadable, opening the state file for writing
\* fails, scanning the directory for segment files fails.
NoFaults == [mkdir |-> FALSE, load |-> "ok", open |-> FALSE, scan |-> FALSE]

StartupFaults ==
    [mkdir : BOOLEAN, load : {"ok", "missing", "unreadable"}, open : BOOLEAN,
     scan : BOOLEAN]

NoHist == [published |-> 0, crashes |-> 0, runs |-> 0, maxCreated |-> -1,
           result |-> [e \in 0 .. (MaxFrames - 1) |-> "none"],
           written |-> <<>>, deliveredRun |-> <<>>,
           blockedOnce |-> {}, acked |-> {}, advanced |-> {}, persisted |-> {},
           startFiles |-> <<>>, startPosition |-> ZeroPosition,
           faults |-> NoFaults,
           ackedAtCrash |-> {}, persistedAtCrash |-> {}, writtenAtCrash |-> <<>>]

\* No disk queue: the memory queue specifications leave these alone.
NoDiskQueue ==
    /\ dqStatus = "none"
    /\ dqSettings = NoDiskSettings
    /\ segFiles = <<>>
    /\ stateFile = ZeroPosition
    /\ segments = NoSegments
    /\ acks = NoACKs
    /\ pendingFrames = <<>>
    /\ writeRequest = <<>>
    /\ blockedProducers = <<>>
    /\ outstanding = {}
    /\ dqHist = NoHist

RECURSIVE FrameBytes(_)
FrameBytes(fs) == IF fs = <<>> THEN 0 ELSE Head(fs).size + FrameBytes(Tail(fs))

\* The file of segment id (ids are unique among the files of a directory).
SegFile(id) == CHOOSE f \in {segFiles[i] : i \in 1 .. Len(segFiles)} : f.id = id

SegIDs(files) == [i \in 1 .. Len(files) |-> files[i].id]

\* NewQueue's check of the settings: TRUE when it returns the error.
\* settings.MaxSegmentSize*2 is computed in the width of the type.
SettingsRejected(st) ==
    /\ st.MaxBufferSize > 0
    /\ st.MaxBufferSize < (st.MaxSegmentSize * 2) % (2 ^ SizeBits)

\* A start-up that resets the byteIndex of every position.
LegacyFixAlways(pos) == [pos EXCEPT !.byteIndex = 0]

\* A start-up that uses every loaded position as it is.
LegacyFixNever(pos) == pos

\* Positions with frameIndex 0 are written by older versions, or are the
\* zero position: their byteIndex is reset.
LegacyFix(pos) == IF pos.frameIndex = 0 THEN [pos EXCEPT !.byteIndex = 0] ELSE pos

\* nextSegmentID: the first ID after the existing segments.
NextSegmentID(files) == IF Len(files) > 0 THEN files[Len(files)].id + 1 ELSE 0

\* A start-up that moves no segment to the acked list.
OlderCountNone(files, readSegmentID) == 0

\* The number of leading segments older than the read position.
RECURSIVE OlderCount(_, _)
OlderCount(files, readSegmentID) ==
    IF Len(files) > 0 /\ Head(files).id < readSegmentID
    THEN 1 + OlderCount(Tail(files), readSegmentID)
    ELSE 0

\* A start-up that never advances the position.
AdvancePositionNever(pos, files) == pos

\* A position older than all existing segments advances to the first one.
AdvancePosition(pos, files) ==
    IF Len(files) > 0 /\ pos.segmentID < files[1].id
    THEN [segmentID |-> files[1].id, frameIndex |-> 0, byteIndex |-> 0]
    ELSE pos

newDiskQueueACKs(pos) == [position |-> pos, nextFrameID |-> 0, done |-> {}]

\* queuePositionFromPath: the stored position, or the zero position with an
\* error when the file is missing or cannot be read.
queuePositionFromPath(file, load) == IF load = "ok" THEN file ELSE ZeroPosition

\* NewQueue returns nil and an error: the settings are rejected, or the
\* directory cannot be created, or the state file cannot be opened for
\* writing, or the segment files cannot be listed.  An error loading the
\* position is only logged.
StartupFails(st, io) == SettingsRejected(st) \/ io.mkdir \/ io.open \/ io.scan

\* NewQueue(settings) on the directory as the previous run left it, with the
\* file system behaving as io says.
NewQueueIO(st, io) ==
    /\ dqStatus = "none"
    /\ dqSettings' = st
    /\ IF StartupFails(st, io)
       THEN /\ dqStatus' = "error"
            /\ dqHist' = [dqHist EXCEPT !.faults = io]
            /\ UNCHANGED <<segments, acks>>
       ELSE LET loaded == LegacyFix(queuePositionFromPath(stateFile, io.load))
                k == OlderCount(segFiles, loaded.segmentID)
                initialSegments == SubSeq(segFiles, k + 1, Len(segFiles))
                ackedSegments == SubSeq(segFiles, 1, k)
                nextReadPosition == AdvancePosition(loaded, initialSegments)
            IN  /\ dqStatus' = "up"
                /\ segments' = [writing |-> <<>>,
                                reading |-> SegIDs(initialSegments),
                                acking |-> <<>>,
                                acked |-> SegIDs(ackedSegments),
                                nextID |-> NextSegmentID(segFiles),
                                nextReadPosition |-> nextReadPosition.byteIndex,
                                nextReadFrameID |-> 0]
                /\ acks' = newDiskQueueACKs(nextReadPosition)
                /\ dqHist' = [dqHist EXCEPT !.runs = @ + 1, !.faults = io]
    /\ UNCHANGED <<segFiles, stateFile, pendingFrames, writeRequest,
                   blockedProducers, outstanding>>
    /\ UNCHANGED <<memVars, plVars, cfgVars>>

\* NewQueue(settings) on a file system without failures.
NewQueue(st) == NewQueueIO(st, NoFaults)

\* The process dies: the directory stays, everything in memory is gone.
Crash ==
    /\ dqStatus # "none"
    /\ dqHist.crashes < MaxCrashes
    /\ dqStatus' = "none"
    /\ segments' = NoSegments
    /\ acks' = NoACKs
    /\ pendingFrames' = <<>>
    /\ writeRequest' = <<>>
    /\ blockedProducers' = <<>>
    /\ outstanding' = {}
    /\ dqHist' = [dqHist EXCEPT !.crashes = @ + 1,
                                !.deliveredRun = <<>>,
                                !.result = [e \in 0 .. (MaxFrames - 1) |->
                                              IF @[e] = "blocked" THEN "cancelled" ELSE @[e]],
                                !.advanced = dqHist.persisted,
                                !.ackedAtCrash = dqHist.acked,
                                !.persistedAtCrash = dqHist.persisted,
                                !.writtenAtCrash = dqHist.written]
    /\ UNCHANGED <<dqSettings, segFiles, stateFile>>
    /\ UNCHANGED <<memVars, plVars, cfgVars>>

\* ---- the core loop and its helper loops (spec 4.2 and 7)

BytesOnDisk == Sum([i \in 1 .. Len(segFiles) |-> FrameBytes(segFiles[i].frames)])

\* A capacity policy that accepts every frame.
canAcceptFrameOfSizeAlways(onDisk, pend, wr, size) == TRUE

\* The capacity policy: bytesOnDisk + bytesInPending +
\* bytesInCurrentWriteRequest + newFrameSize <= MaxBufferSize.
canAcceptFrameOfSize(onDisk, pend, wr, size) ==
    onDisk + FrameBytes(pend) + FrameBytes(wr) + size <= dqSettings.MaxBufferSize

\* maybeWritePending: the pending frames go to the writer loop when it is idle.
maybeWritePending(pend, wr) ==
    IF wr = <<>> THEN [pendingFrames |-> <<>>, writeRequest |-> pend]
    ELSE [pendingFrames |-> pend, writeRequest |-> wr]

\* Producer.Publish of an event whose frame has `size` bytes: the core loop
\* accepts the frame, or keeps the producer blocked.
DiskPublish(size) ==
    /\ dqStatus = "up"
    /\ dqHist.published < MaxFrames
    /\ LET frame == [ev |-> dqHist.published, size |-> size] IN
       IF canAcceptFrameOfSize(BytesOnDisk, pendingFrames, writeRequest, size)
       THEN LET w == maybeWritePending(Append(pendingFrames, frame), writeRequest) IN
            /\ pendingFrames' = w.pendingFrames
            /\ writeRequest' = w.writeRequest
            /\ dqHist' = [dqHist EXCEPT !.published = @ + 1,
                                        !.result[frame.ev] = "accepted"]
            /\ UNCHANGED blockedProducers
       ELSE /\ blockedProducers' = Append(blockedProducers, frame)
            /\ dqHist' = [dqHist EXCEPT !.published = @ + 1,
                                        !.result[frame.ev] = "blocked",
                                        !.blockedOnce = @ \cup {frame.ev}]
            /\ UNCHANGED <<pendingFrames, writeRequest>>
    /\ UNCHANGED <<dqStatus, dqSettings, segFiles, stateFile, segments, acks, outstanding>>
    /\ UNCHANGED <<memVars, plVars, cfgVars>>

\* The writer appends one frame: it rolls to a new segment when the frame does
\* not fit the current one, and a segment that reached MaxSegmentSize is sealed.
WriteFrame(w, frame) ==
    LET roll == \/ w.segs.writing = <<>>
                \/ FrameBytes(w.files[Len(w.files)].frames) + frame.size
                      > dqSettings.MaxSegmentSize
        files1 == IF roll THEN Append(w.files, [id |-> w.segs.nextID, frames |-> <<>>])
                  ELSE w.files
        segs1 == IF roll
                 THEN [w.segs EXCEPT !.reading = @ \o w.segs.writing,
                                     !.writing = <<w.segs.nextID>>,
                                     !.nextID = @ + 1]
                 ELSE w.segs
        n == Len(files1)
        files2 == [files1 EXCEPT ![n].frames = Append(@, frame)]
        full == FrameBytes(files2[n].frames) >= dqSettings.MaxSegmentSize
        segs2 == IF full
                 THEN [segs1 EXCEPT !.reading = @ \o segs1.writing, !.writing = <<>>]
                 ELSE segs1
    IN  [files |-> files2, segs |-> segs2]

RECURSIVE WriteFrames(_, _)
WriteFrames(w, frames) ==
    IF frames = <<>> THEN w ELSE WriteFrames(WriteFrame(w, Head(frames)), Tail(frames))

Events(frames) == [i \in 1 .. Len(frames) |-> frames[i].ev]

\* The writer loop writes its request to disk and the core loop handles the
\* response, handing the frames that became pending meanwhile to the writer.
WriterLoop ==
    /\ dqStatus = "up"
    /\ writeRequest # <<>>
    /\ LET w == WriteFrames([files |-> segFiles, segs |-> segments], writeRequest)
           next == maybeWritePending(pendingFrames, <<>>) IN
       /\ segFiles' = w.files
       /\ segments' = w.segs
       /\ pendingFrames' = next.pendingFrames
       /\ writeRequest' = next.writeRequest
       /\ dqHist' = [dqHist EXCEPT !.written = @ \o Events(writeRequest),
                                   !.maxCreated = Max(@, w.files[Len(w.files)].id)]
    /\ UNCHANGED <<dqStatus, dqSettings, stateFile, acks, blockedProducers, outstanding>>
    /\ UNCHANGED <<memVars, plVars, cfgVars>>

\* The segment the reader reads next: the first sealed one, else the one
\* being written.
ReadSegment ==
    IF segments.reading # <<>> THEN <<segments.reading[1]>> ELSE segments.writing

\* The index of the frame that starts at byte offset `off`, 0 if none does.
FrameAt(frames, off) ==
    IF \E i \in 1 .. Len(frames) : FrameBytes(SubSeq(frames, 1, i - 1)) = off
    THEN CHOOSE i \in 1 .. Len(frames) : FrameBytes(SubSeq(frames, 1, i - 1)) = off
    ELSE 0

\* The event number that stands for a frame whose checksum fails.
Corrupted == -1

\* A reader that does not validate checksums.
DecodableUnchecked(frames, off) == FrameAt(frames, off) > 0

\* A frame starts at byte offset `off` and its checksum is valid.
Decodable(frames, off) ==
    /\ FrameAt(frames, off) > 0
    /\ frames[FrameAt(frames, off)].ev # Corrupted

\* The reader reads the next frame at segments.nextReadPosition and a consumer
\* gets it.
ReadFrame ==
    /\ dqStatus = "up"
    /\ Cardinality(outstanding) < MaxOutstanding
    /\ ReadSegment # <<>>
    /\ LET file == SegFile(ReadSegment[1])
           i == FrameAt(file.frames, segments.nextReadPosition) IN
       /\ Decodable(file.frames, segments.nextReadPosition)
       /\ outstanding' = outstanding \cup
              {[id |-> segments.nextReadFrameID, ev |-> file.frames[i].ev,
                seg |-> file.id, idx |-> i - 1,
                off |-> segments.nextReadPosition, size |-> file.frames[i].size]}
       /\ segments' = [segments EXCEPT !.nextReadPosition = @ + file.frames[i].size,
                                       !.nextReadFrameID = @ + 1]
       /\ dqHist' = [dqHist EXCEPT !.deliveredRun = Append(@, file.frames[i].ev)]
    /\ UNCHANGED <<dqStatus, dqSettings, segFiles, stateFile, acks, pendingFrames,
                   writeRequest, blockedProducers>>
    /\ UNCHANGED <<memVars, plVars, cfgVars>>

\* The segments of `ids` that have no frame with a consumer.
FullyAcked(ids, out) == SelectSeq(ids, LAMBDA s : \A f \in out : f.seg # s)
StillAcking(ids, out) == SelectSeq(ids, LAMBDA s : \E f \in out : f.seg = s)

\* The reader is through with the first sealed segment (its end is reached, or
\* no frame can be decoded at the read position, or the checksum of the frame
\* there fails): the segment waits for its ACKs, and the next segment is read
\* from its beginning.
FinishSegment ==
    /\ dqStatus = "up"
    /\ segments.reading # <<>>
    /\ ~Decodable(SegFile(segments.reading[1]).frames, segments.nextReadPosition)
    /\ LET acking == Append(segments.acking, segments.reading[1]) IN
       segments' = [segments EXCEPT !.reading = Tail(@),
                                    !.acking = StillAcking(acking, outstanding),
                                    !.acked = @ \o FullyAcked(acking, outstanding),
                                    !.nextReadPosition = 0]
    /\ UNCHANGED <<dqStatus, dqSettings, segFiles, stateFile, acks, pendingFrames,
                   writeRequest, blockedProducers, outstanding, dqHist>>
    /\ UNCHANGED <<memVars, plVars, cfgVars>>

\* The position after frame f.
PositionAfter(f) ==
    [segmentID |-> f.seg, frameIndex |-> f.idx + 1, byteIndex |-> f.off + f.size]

\* The ACK tracker: the position advances over the frames acknowledged in
\* the order they were read.
RECURSIVE AdvanceACKs(_)
AdvanceACKs(a) ==
    IF \E f \in a.done : f.id = a.nextFrameID
    THEN LET f == CHOOSE g \in a.done : g.id = a.nextFrameID IN
         AdvanceACKs([position |-> PositionAfter(f),
                      nextFrameID |-> a.nextFrameID + 1,
                      done |-> a.done \ {f}])
    ELSE a

\* The state file is written when the position passes a segment boundary, and
\* best-effort otherwise.
MustPersist(old, new) == new.segmentID # old.segmentID

\* A consumer acknowledges frame f.
DiskDone(f, written) ==
    /\ dqStatus = "up"
    /\ f \in outstanding
    /\ LET a == AdvanceACKs([acks EXCEPT !.done = @ \cup {f}])
           out == outstanding \ {f}
           moved == {g.ev : g \in (acks.done \cup {f}) \ a.done}
           stored == a.position # acks.position /\ (written \/ MustPersist(acks.position, a.position))
       IN
       /\ acks' = a
       /\ outstanding' = out
       /\ stateFile' = IF stored THEN a.position ELSE stateFile
       /\ segments' = [segments EXCEPT !.acking = StillAcking(@, out),
                                       !.acked = @ \o FullyAcked(segments.acking, out)]
       /\ dqHist' = [dqHist EXCEPT !.acked = @ \cup {f.ev},
                                   !.advanced = @ \cup moved,
                                   !.persisted = IF stored THEN dqHist.advanced \cup moved
                                                 ELSE @]
    /\ UNCHANGED <<dqStatus, dqSettings, segFiles, pendingFrames, writeRequest,
                   blockedProducers>>
    /\ UNCHANGED <<memVars, plVars, cfgVars>>

\* A deleter response that leaves the blocked producers alone.
unblockProducersNever(onDisk, pend, blocked) ==
    [pendingFrames |-> pend, blockedProducers |-> blocked]

\* The blocked producers are revisited in order: the first ones whose frames
\* fit are accepted.
RECURSIVE unblockProducers(_, _, _)
unblockProducers(onDisk, pend, blocked) ==
    IF blocked # <<>> /\ canAcceptFrameOfSize(onDisk, pend, writeRequest, Head(blocked).size)
    THEN unblockProducers(onDisk, Append(pend, Head(blocked)), Tail(blocked))
    ELSE [pendingFrames |-> pend, blockedProducers |-> blocked]

RemoveFile(files, id) == SelectSeq(files, LAMBDA f : f.id # id)

\* The deleter loop deletes the first fully acknowledged segment and the core
\* loop handles its response.
DeleteSegment ==
    /\ dqStatus = "up"
    /\ segments.acked # <<>>
    /\ LET files == RemoveFile(segFiles, segments.acked[1])
           onDisk == Sum([i \in 1 .. Len(files) |-> FrameBytes(files[i].frames)])
           u == unblockProducers(onDisk, pendingFrames, blockedProducers)
           w == maybeWritePending(u.pendingFrames, writeRequest)
           n == Len(blockedProducers) - Len(u.blockedProducers)
       IN
       /\ segFiles' = files
       /\ segments' = [segments EXCEPT !.acked = Tail(@)]
       /\ blockedProducers' = u.blockedProducers
       /\ pendingFrames' = w.pendingFrames
       /\ writeRequest' = w.writeRequest
       /\ dqHist' = [dqHist EXCEPT !.result =
              [e \in 0 .. (MaxFrames - 1) |->
                  IF \E i \in 1 .. n : blockedProducers[i].ev = e
                  THEN "accepted" ELSE @[e]]]
    /\ UNCHANGED <<dqStatus, dqSettings, stateFile, acks, outstanding>>
    /\ UNCHANGED <<memVars, plVars, cfgVars>>

\* ------------------------------------------------------------ specification

\* The queues under test: a ring of MaxEventsSetting events, batches up to the
\* whole ring, with and without a flush timeout.
SettingsSet ==
    [events : {MaxEventsSetting}, maxGetRequest : {MaxEventsSetting}, flushTimeout : {0, 1}]

\* The producers under test: the first has an ACK callback, the others may.
CallbackChoices == {h \in [Producers -> BOOLEAN] : h[1]}

\* The state after NewQueue(st), with the producers made by newProducer and
\* the consumers in their first Get(size); the producers publish n events.
QueueInit(st, n, size, cbs, mode) ==
    /\ pipeline = NoPipeline
    /\ plClient = [p \in Producers |-> [mode |-> mode, dropped |-> 0]]
    /\ settings = st
    /\ quota = n
    /\ batchSize = size
    /\ hasCB = cbs
    /\ pc = [p \in Producers |-> "idle"]
    /\ calls = 0
    /\ producedCount = [p \in Producers |-> newProducer(cbs[p]).producedCount]
    /\ stDone = [p \in Producers |-> newProducer(cbs[p]).done]
    /\ eventsNil = [p \in Producers |-> newProducer(cbs[p]).eventsNil]
    /\ resp = [p \in Producers |-> <<>>]
    /\ closeAck = [p \in Producers |-> 0]
    /\ pushChan = <<>>
    /\ buf = [s \in 0 .. (st.events - 1) |-> NoEntry]
    /\ head = 0
    /\ consumed = 0
    /\ acked = 0
    /\ inserted = [p \in Producers |-> 0]
    /\ closing = FALSE
    /\ queueDone = FALSE
    /\ pendingGet = NoGet
    /\ batches = <<>>
    /\ lastACK = [p \in Producers |-> newProducer(cbs[p]).lastACK]
    /\ ackLog = [p \in Producers |-> <<>>]
    /\ cpc = [c \in Consumers |-> "get"]
    /\ cbatch = [c \in Consumers |-> NoBatch]
    /\ delivered = [id \in 0 .. (n - 1) |-> 0]
    /\ dupDone = FALSE

\* The producers are used directly, as the queue tests do.
ClientInit(st, n, size, cbs, mode) ==
    /\ config = NoConfig
    /\ QueueInit(st, n, size, cbs, mode)

MemInit(st, n, size, cbs) == ClientInit(st, n, size, cbs, "none")

\* The memory queue under test, and no disk queue.
InitWith(st, n, size, cbs) ==
    /\ MemInit(st, n, size, cbs)
    /\ NoDiskQueue

Init ==
    \E st \in SettingsSet, size \in GetSizes, cbs \in CallbackChoices :
        InitWith(st, MaxCalls, size, cbs)

Next ==
    \/ \E p \in Producers : Publish(p)
    \/ \E p \in Producers : publish(p)
    \/ \E p \in Producers : TryPublish(p)
    \/ \E p \in Producers : waitResp(p)
    \/ \E p \in Producers : waitQueueClosing(p)
    \/ HandleInsert
    \/ \E c \in Consumers : HandleGetRequest(c)
    \/ HandleTimeout
    \/ HandleAck
    \/ QueueClose
    \/ \E c \in Consumers : GetFail(c)
    \/ \E c \in Consumers : Done(c)

Spec == Init /\ [][Next]_vars

\* The same queue with producers that may be closed at any time, also while
\* one of their calls is in flight.
NextClose ==
    \/ Next
    \/ \E p \in Producers : Close(p)

SpecClose == Init /\ [][NextClose]_vars

\* What the scheduler guarantees whatever the callers do: a producer inside
\* publish/tryPublish takes a select case that is ready, the broker handles a
\* request it can handle, an armed flush timer expires, and a Get on a queue
\* that has shut down returns.  Nothing obliges a caller to start a call, to
\* call Done on a batch it holds, or to close anything.
FairnessClose ==
    /\ \A p \in Producers : WF_vars(publish(p) \/ waitResp(p) \/ waitQueueClosing(p))
    /\ WF_vars(HandleInsert)
    /\ WF_vars(\E c \in Consumers : HandleGetRequest(c))
    /\ WF_vars(HandleTimeout)
    /\ WF_vars(HandleAck)
    /\ \A c \in Consumers : WF_vars(GetFail(c))

SpecCloseLive == Init /\ [][NextClose]_vars /\ FairnessClose

\* The same queue with consumers that may call Done twice on a batch.
NextDup ==
    \/ \E p \in Producers : Publish(p)
    \/ \E p \in Producers : publish(p)
    \/ \E p \in Producers : waitResp(p)
    \/ \E p \in Producers : waitQueueClosing(p)
    \/ HandleInsert
    \/ \E c \in Consumers : HandleGetRequest(c)
    \/ HandleTimeout
    \/ HandleAck
    \/ QueueClose
    \/ \E c \in Consumers : GetFail(c)
    \/ \E c \in Consumers : Done(c)
    \/ \E c \in Consumers : FirstDone(c)
    \/ \E c \in Consumers : SecondDone(c)

SpecDup == Init /\ [][NextDup]_vars

\* runTestCases with makeProducer and multiConsumer workers on a queue that is
\* not closed while they run: every producer publishes with Publish, every
\* consumer loops over Get and Done.
NextLive ==
    \/ \E p \in Producers : Publish(p)
    \/ \E p \in Producers : publish(p)
    \/ \E p \in Producers : waitResp(p)
    \/ HandleInsert
    \/ \E c \in Consumers : HandleGetRequest(c)
    \/ HandleTimeout
    \/ HandleAck
    \/ \E c \in Consumers : Done(c)

\* Every goroutine that can take a step eventually takes one, and an armed
\* flush timer eventually expires.
Fairness ==
    /\ \A p \in Producers : WF_vars(Publish(p) \/ publish(p) \/ waitResp(p))
    /\ WF_vars(HandleInsert)
    /\ WF_vars(\E c \in Consumers : HandleGetRequest(c))
    /\ WF_vars(HandleTimeout)
    /\ WF_vars(HandleAck)
    /\ \A c \in Consumers : WF_vars(Done(c))

SpecLive == Init /\ [][NextLive]_vars /\ Fairness

\* The test workers on a queue that is not closed, with producers that are
\* closed at any time, also while they publish.
NextProducerClose ==
    \/ NextLive
    \/ \E p \in Producers : Close(p)

\* Both producers have an ACK callback; the consumers get limited or complete
\* batches from a queue with a flush timeout.
InitProducerClose ==
    \E size \in GetSizes :
        InitWith([events |-> MaxEventsSetting, maxGetRequest |-> MaxEventsSetting,
                  flushTimeout |-> 1],
                 MaxCalls, size, [p \in Producers |-> TRUE])

SpecProducerClose == InitProducerClose /\ [][NextProducerClose]_vars /\ Fairness

\* runTestCases with the queue closed while the workers run: producers in
\* Publish, consumers looping over Get and Done, and Queue.Close at any time.
NextShutdown ==
    \/ NextLive
    \/ \E p \in Producers : waitQueueClosing(p)
    \/ QueueClose
    \/ \E c \in Consumers : GetFail(c)

\* As FairnessClose, and a multiConsumer worker that holds a batch calls Done.
FairnessShutdown ==
    /\ FairnessClose
    /\ \A c \in Consumers : WF_vars(Done(c))

\* The queue is made with a flush timeout and the consumers ask for complete
\* batches (Get(-1)), so that a Get may wait for its batch to fill; both
\* producers have an ACK callback.
InitShutdown ==
    InitWith([events |-> MaxEventsSetting, maxGetRequest |-> MaxEventsSetting,
              flushTimeout |-> 1],
             MaxCalls, -1, [p \in Producers |-> TRUE])

SpecShutdown == InitShutdown /\ [][NextShutdown]_vars /\ FairnessShutdown

\* The seed case of TestSingleProducerConsumer: one producer with an ACK
\* callback publishes SeedK * SeedB events, one consumer gets batches of SeedB.
SeedK == 3
SeedB == 2

\* The queue holds all the events and a get request waits (the flush timer
\* does not expire) until SeedB events are there: every batch has SeedB events.
InitSeed ==
    InitWith([events |-> SeedK * SeedB, maxGetRequest |-> SeedB, flushTimeout |-> 1],
             SeedK * SeedB, SeedB, [p \in Producers |-> p = 1])

NextSeed ==
    \/ Publish(1)
    \/ waitResp(1)
    \/ HandleInsert
    \/ HandleGetRequest(1)
    \/ HandleAck
    \/ Done(1)

SpecSeed == InitSeed /\ [][NextSeed]_vars

\* ------------------------------------------------------------------ claims

\* The sum of the counts passed so far to p's ACK callback.
AckSum(p) == Sum(ackLog[p])

\* The producerIDs of the ring entries lo .. hi-1 that carry producer p, in order.
RECURSIVE PidsIn(_, _, _)
PidsIn(p, lo, hi) ==
    IF lo >= hi THEN <<>>
    ELSE (IF buf[Slot(lo)].producer = p THEN <<buf[Slot(lo)].producerID>> ELSE <<>>)
         \o PidsIn(p, lo + 1, hi)

\* C1: for every ACK-tracking producer the counts passed to its callback never
\* sum to more than the number of its Publish/TryPublish calls that returned
\* accepted = true.  It is stated for the states in which the producer has no
\* call in flight, where every event the queue took was reported to the caller.
C1_AckSumWithinAccepted ==
    \A p \in Producers :
        (hasCB[p] /\ pc[p] = "idle") => AckSum(p) <= producedCount[p]

\* The callbacks of an ACK-tracking producer never count more events than the
\* broker inserted for it (checked beside C1; the events the broker inserted
\* are not all events whose call returned true).
AckSumWithinInserted ==
    \A p \in Producers : hasCB[p] => AckSum(p) <= inserted[p]

C3_AllEventuallyAcked ==
    <>[](/\ calls = quota
         /\ \A p \in Producers :
                /\ pc[p] = "idle"
                /\ hasCB[p] => AckSum(p) = producedCount[p])

\* Two ACK-tracking producers published all the events between them and each
\* was told of all its events.
C3_Witness ==
    /\ calls = quota
    /\ acked = quota
    /\ \A p \in Producers :
        /\ hasCB[p]
        /\ pc[p] = "idle"
        /\ producedCount[p] >= 1
        /\ AckSum(p) = producedCount[p]

\* C4: per producer the events reported as ACKed are a prefix of the events
\* accepted from it: the callback counts sum to lastACK, the entries still in
\* the ring carry exactly the producerIDs lastACK+1 .. inserted in order, and
\* no entry of a batch whose Done is outstanding lies below the acked cursor.
C4_AckedIsPrefix ==
    /\ \A p \in Producers :
        hasCB[p] =>
            /\ AckSum(p) = lastACK[p]
            /\ PidsIn(p, acked, head)
                 = [i \in 1 .. (inserted[p] - lastACK[p]) |-> lastACK[p] + i]
    /\ \A c \in Consumers : cpc[c] = "batch" => cbatch[c].start >= acked
    /\ \A i \in DOMAIN batches : batches[i].start >= acked

\* A later batch is Done while the oldest batch is not, after an earlier ACK.
C4_Witness ==
    /\ Len(batches) >= 2
    /\ ~batches[1].done
    /\ batches[2].done
    /\ \E p \in Producers : hasCB[p] /\ AckSum(p) >= 1 /\ inserted[p] > lastACK[p]

\* The entries acked .. to-1 that carry producer p.
NewlyAcked(p, to) == Len(PidsIn(p, acked, to))

\* C5: whenever the acked cursor advances, each producer with a callback that
\* has entries among the newly acked ones gets exactly one callback, whose
\* count is the number of those entries and equals the advance of its
\* lastACK; every other producer gets none.
C5_OneCallbackPerProducer ==
    [][acked' > acked =>
        \A p \in Producers :
            IF hasCB[p] /\ NewlyAcked(p, acked') > 0
            THEN /\ ackLog'[p] = Append(ackLog[p], NewlyAcked(p, acked'))
                 /\ lastACK'[p] - lastACK[p] = NewlyAcked(p, acked')
            ELSE /\ ackLog'[p] = ackLog[p]
                 /\ lastACK'[p] = lastACK[p]]_vars

\* One advance acknowledged two events of one producer with one callback and
\* an event of another producer with its own callback.
C5_Witness ==
    \E p, q \in Producers :
        /\ p # q
        /\ ackLog[p] = <<2>>
        /\ ackLog[q] = <<1>>
        /\ batches = <<>>
        /\ acked = 3

\* C6 as stated: once all SeedK * SeedB events are acknowledged, the callback
\* has been invoked exactly SeedK times, each time with count SeedB.
C6_ExactlyKCallbacksOfB ==
    acked = SeedK * SeedB => ackLog[1] = [i \in 1 .. SeedK |-> SeedB]

\* C6 amended: the callback is invoked at most SeedK times, each count is a
\* positive multiple of SeedB, the counts sum to the number of events
\* acknowledged so far, and to SeedK * SeedB once every batch is acknowledged.
C6_CallbacksOfWholeBatches ==
    /\ Len(ackLog[1]) <= SeedK
    /\ \A i \in DOMAIN ackLog[1] : ackLog[1][i] > 0 /\ ackLog[1][i] % SeedB = 0
    /\ AckSum(1) = acked
    /\ (calls = quota /\ pc[1] = "idle" /\ batches = <<>> /\ consumed = head)
          => AckSum(1) = SeedK * SeedB

\* All the events are acknowledged, with one callback per batch.
C6_Witness ==
    /\ acked = SeedK * SeedB
    /\ ackLog[1] = [i \in 1 .. SeedK |-> SeedB]

\* C7: the three cursors of the memory queue are ordered.
C7_CursorOrder == acked <= consumed /\ consumed <= head

\* All three cursors have moved and differ.
C7_Witness == 0 < acked /\ acked < consumed /\ consumed < head

\* C8: the entries held and not yet acknowledged never exceed `events`.
C8_CapacityBound == head - acked <= settings.events

\* The ring is full and a further push request waits in the push channel for
\* the broker, its producer waiting for the response.
C8_Witness ==
    /\ head - acked = settings.events
    /\ pushChan # <<>>
    /\ \E p \in Producers : pc[p] \in {"wait", "trywait"} /\ resp[p] = <<>>

C10_TryPublishNeverWaits ==
    \A p \in Producers :
        ~(pc[p] = "trywait" /\ resp[p] = <<>> /\ QueueFull /\ ~closing)


\* C11: closing a producer unblocks its in-flight Publish, whether the call
\* still waits to hand its request to the broker ("select") or already waits
\* for the broker's response that has not come ("wait"): the call returns, and
\* it returns (0, false), so that an ACK-tracking producer that had counted n
\* published events is idle again with the same count.
C11_CloseUnblocksPublish ==
    \A p \in Producers : \A n \in 0 .. MaxCalls :
        (/\ hasCB[p]
         /\ stDone[p]
         /\ producedCount[p] = n
         /\ \/ pc[p] = "select"
            \/ pc[p] = "wait" /\ resp[p] = <<>>)
          ~> (pc[p] = "idle" /\ producedCount[p] = n)


\* C12: closing the queue unblocks every blocked caller: once the queue is
\* closing, eventually no producer is inside Publish and every consumer has
\* had a failed Get.  A Publish that waits to hand over its request, or for a
\* response, gets no response once the queue is closing and returns
\* (0, false): the producer's count of published events is unchanged.  A Get
\* that waits for its batch to fill fails when the queue closes, and a Get
\* that waits on a closing queue with nothing left to read ends with a failed
\* result and nothing else.
C12_QueueCloseUnblocks ==
    /\ closing ~> (/\ \A p \in Producers : pc[p] = "idle"
                   /\ \A c \in Consumers : cpc[c] = "stopped")
    /\ [][/\ \A p \in Producers :
              /\ (closing /\ pc[p] \in {"select", "wait"} /\ resp[p] = <<>>)
                    => resp'[p] = <<>>
              /\ (pc[p] \in {"select", "wait"} /\ resp[p] = <<>> /\ pc'[p] = "idle")
                    => producedCount'[p] = producedCount[p]
          /\ \A c \in Consumers :
              /\ (cpc[c] = "wait" /\ ~closing /\ closing') => cpc'[c] = "stopped"
              /\ (closing /\ cpc[c] = "get" /\ consumed = head)
                    => cpc'[c] \in {"get", "stopped"}]_vars

\* The queue is closed: a producer has returned from Publish on the closing
\* signal, and a consumer has stopped while unread events remain (its Get
\* waited for the batch to fill).
C12_Witness ==
    /\ closing
    /\ consumed < head
    /\ \E p \in Producers : pc[p] = "idle" /\ eventsNil[p]
    /\ \E c \in Consumers : cpc[c] = "stopped"

\* C13: with neither the producer nor the queue closed, a Publish whose event
\* the queue has not taken does not return while the queue is at capacity;
\* once consumers acknowledge events the call eventually returns, and a
\* Publish that returns has returned (id, true): an ACK-tracking producer
\* counts one more published event.
C13_PublishBlocksUntilSpace ==
    /\ \A p \in Producers :
        (QueueFull /\ pc[p] \in {"select", "wait"} /\ resp[p] = <<>>)
          ~> (pc[p] = "idle")
    /\ [][\A p \in Producers :
            /\ (QueueFull /\ pc[p] \in {"select", "wait"} /\ resp[p] = <<>>)
                  => pc'[p] # "idle"
            /\ (hasCB[p] /\ pc[p] \in {"select", "wait"} /\ pc'[p] = "idle")
                  => producedCount'[p] = producedCount[p] + 1]_vars

\* The queue is at capacity with every entry handed to a consumer, and an
\* ACK-tracking producer's Publish waits for the broker to take its request.
C13_Witness ==
    /\ QueueFull
    /\ consumed = head
    /\ \E p \in Producers :
        /\ hasCB[p]
        /\ pc[p] = "wait"
        /\ resp[p] = <<>>
        /\ pushChan # <<>>
        /\ Head(pushChan).resp = p

\* C14: after Producer.Close the producer's accepted events are still
\* acknowledged: an advance of the acked cursor over entries of a closed
\* producer still runs its callback with their count, and in the end the
\* callback counts of every ACK-tracking producer, closed or not, sum to the
\* number of its accepted events.
C14_AckAfterProducerClose ==
    /\ <>[](\A p \in Producers :
              hasCB[p] => (pc[p] = "idle" /\ AckSum(p) = producedCount[p]))
    /\ [][\A p \in Producers :
            (hasCB[p] /\ stDone[p] /\ acked' > acked /\ NewlyAcked(p, acked') > 0)
                => ackLog'[p] = Append(ackLog[p], NewlyAcked(p, acked'))]_vars

\* A closed producer's callback was called after the producer was closed, and
\* has now counted all its accepted events.
C14_Witness ==
    \E p \in Producers :
        /\ hasCB[p]
        /\ stDone[p]
        /\ pc[p] = "idle"
        /\ AckSum(p) > closeAck[p]
        /\ AckSum(p) = producedCount[p]

\* C15: every batch the broker hands out is non-empty, holds no more than the
\* entryCount asked for, and holds all the events available up to entryCount.
\* With flushTimeout > 0 a batch of fewer than entryCount events is handed out
\* only when the flush timer of a waiting request expires (no batch before
\* entryCount events are there or the timer expired); with flushTimeout = 0 no
\* request ever waits for a timer.
C15_FlushTiming ==
    /\ [](settings.flushTimeout = 0 =>
            (pendingGet = NoGet /\ \A c \in Consumers : cpc[c] # "wait"))
    /\ [][consumed' > consumed =>
            LET b == batches'[Len(batches')]
                n == EntryCount(batchSize) IN
            /\ b.count >= 1
            /\ b.count <= n
            /\ b.count = Min(n, head' - consumed)
            /\ (settings.flushTimeout > 0 /\ b.count < n) =>
                  (pendingGet # NoGet /\ pendingGet' = NoGet /\ head' = head)]_vars

\* With a flush timeout, a consumer holds a batch of fewer events than it asked
\* for: its request waited and the timer expired.
C15_Witness ==
    /\ settings.flushTimeout > 0
    /\ \E c \in Consumers :
        /\ cpc[c] = "batch"
        /\ cbatch[c].count >= 1
        /\ cbatch[c].count < EntryCount(batchSize)


\* ------------------------------------------------- disk queue specifications

\* No memory queue is under test while the disk queue runs.
InitDisk ==
    InitWith([events |-> MaxEventsSetting, maxGetRequest |-> MaxEventsSetting,
              flushTimeout |-> 0], 0, -1, [p \in Producers |-> TRUE])

\* NewQueue with every value of the settings, on a directory that is empty at
\* first and is opened again after a crash.
NextNewQueue ==
    \/ \E st \in AllDiskSettings : NewQueue(st)
    \/ Crash

SpecNewQueue == InitDisk /\ [][NextNewQueue]_vars

\* C16: every queue NewQueue constructs has a MaxBufferSize of at least twice
\* its MaxSegmentSize.
C16_BufferTwiceSegment ==
    dqStatus = "up" => dqSettings.MaxBufferSize >= 2 * dqSettings.MaxSegmentSize


\* One run of the disk queue, without a crash.
NextDiskRun ==
    \/ \E st \in RunDiskSettings : NewQueue(st)
    \/ \E size \in FrameSizes : DiskPublish(size)
    \/ WriterLoop
    \/ ReadFrame
    \/ FinishSegment
    \/ \E f \in outstanding, written \in BOOLEAN : DiskDone(f, written)
    \/ DeleteSegment

\* The disk queue over crashes and restarts.
NextDisk == NextDiskRun \/ Crash

SpecDisk == InitDisk /\ [][NextDisk]_vars


\* The bytes the capacity policy counts.
BufferedBytes == BytesOnDisk + FrameBytes(pendingFrames) + FrameBytes(writeRequest)

\* C17: the bytes on disk, in pending frames and in the current write request
\* never add up to more than MaxBufferSize; a frame is accepted only when it
\* fits, and a Publish whose frame does not fit is put on blockedProducers.
C17_BufferBound ==
    /\ [](dqStatus = "up" => BufferedBytes <= dqSettings.MaxBufferSize)
    /\ [][\A e \in 0 .. (MaxFrames - 1) :
            /\ (dqHist.result[e] # "accepted" /\ dqHist'.result[e] = "accepted") =>
                  /\ \E i \in 1 .. Len(pendingFrames' \o writeRequest') :
                        (pendingFrames' \o writeRequest')[i].ev = e
                  /\ BufferedBytes' <= dqSettings.MaxBufferSize
            /\ (dqHist.result[e] = "none" /\ dqHist'.result[e] = "blocked") =>
                  /\ blockedProducers' # <<>>
                  /\ blockedProducers'[Len(blockedProducers')].ev = e
                  /\ BufferedBytes + blockedProducers'[Len(blockedProducers')].size
                        > dqSettings.MaxBufferSize
                  /\ BufferedBytes' = BufferedBytes]_vars

\* The buffer is full, with bytes on disk and at the writer, and a producer is
\* blocked.
C17_Witness ==
    /\ dqStatus = "up"
    /\ BytesOnDisk > 0
    /\ writeRequest # <<>>
    /\ BufferedBytes = dqSettings.MaxBufferSize
    /\ blockedProducers # <<>>


\* The loops of the queue keep running and the consumers keep reading and
\* acknowledging.
FairnessDisk ==
    /\ WF_vars(WriterLoop)
    /\ WF_vars(ReadFrame)
    /\ WF_vars(FinishSegment)
    /\ WF_vars(\E f \in outstanding : DiskDone(f, TRUE))
    /\ WF_vars(DeleteSegment)

SpecDiskLive == InitDisk /\ [][NextDiskRun]_vars /\ FairnessDisk

InSeq(e, s) == \E i \in 1 .. Len(s) : s[i] = e
NoRepeat(s) == \A i, j \in 1 .. Len(s) : s[i] = s[j] => i = j

\* C19 as stated: no event acknowledged before the last crash is delivered in
\* the run after it, and no event is delivered twice in one run.
C19_AckedNeverRedelivered ==
    /\ \A e \in dqHist.ackedAtCrash : ~InSeq(e, dqHist.deliveredRun)
    /\ NoRepeat(dqHist.deliveredRun)

\* C19: no event whose acknowledgement had reached the state file before the
\* last crash (the position written to the file had advanced past its frame)
\* is delivered in the run after it, and no event is delivered twice in one
\* run, over any number of crashes and restarts.
C19_PersistedNeverRedelivered ==
    /\ \A e \in dqHist.persistedAtCrash : ~InSeq(e, dqHist.deliveredRun)
    /\ NoRepeat(dqHist.deliveredRun)

\* After a crash, the restarted queue delivers the frame after an event whose
\* acknowledgement was in the state file, from the same segment file.
C19_Witness ==
    /\ dqHist.crashes > 0
    /\ dqHist.persistedAtCrash # {}
    /\ \E f \in outstanding :
          /\ f.idx > 0
          /\ f.ev \notin dqHist.ackedAtCrash
          /\ SegFile(f.seg).frames[f.idx].ev \in dqHist.persistedAtCrash


\* The place of event e in the order of the writes.
WriteIndex(e) == CHOOSE i \in 1 .. Len(dqHist.written) : dqHist.written[i] = e

\* The frames written and not acknowledged when the process last crashed.
UnackedAtCrash ==
    {e \in 0 .. (MaxFrames - 1) :
        InSeq(e, dqHist.writtenAtCrash) /\ e \notin dqHist.ackedAtCrash}

\* The frame of event e is still ahead of the reader: in a segment that is
\* being written or waits to be read, at or after the read position.
AheadOfReader(e) ==
    \E n \in 1 .. Len(segFiles) :
        \E i \in 1 .. Len(segFiles[n].frames) :
            /\ segFiles[n].frames[i].ev = e
            /\ InSeq(segFiles[n].id, segments.reading \o segments.writing)
            /\ \/ ReadSegment # <<segFiles[n].id>>
               \/ FrameBytes(SubSeq(segFiles[n].frames, 1, i - 1)) >= segments.nextReadPosition

\* C20: after a crash, the restarted queue goes through the frames that were
\* written and not acknowledged in the order they were written, and skips
\* none of them: each has been delivered or is still ahead of the reader.
C20_UnackedFramesDelivered ==
    (dqStatus = "up" /\ dqHist.crashes > 0) =>
        /\ \A e \in UnackedAtCrash : InSeq(e, dqHist.deliveredRun) \/ AheadOfReader(e)
        /\ \A i, j \in 1 .. Len(dqHist.deliveredRun) :
              i < j => WriteIndex(dqHist.deliveredRun[i]) < WriteIndex(dqHist.deliveredRun[j])


\* The IDs of the segment files in the directory.
FileIDs(files) == {files[n].id : n \in 1 .. Len(files)}

\* C21: every segment file that is created gets an ID greater than the ID of
\* every segment created before in the directory, over crashes and restarts;
\* the segments of the directory are in ascending order of ID.
C21_SegmentIDsNeverReused ==
    /\ [](\A m, n \in 1 .. Len(segFiles) : m < n => segFiles[m].id < segFiles[n].id)
    /\ [][\A n \in 1 .. Len(segFiles') :
            segFiles'[n].id \notin FileIDs(segFiles) => segFiles'[n].id > dqHist.maxCreated]_vars



\* ------------------------------------------- start-up on an existing directory

\* Highest segment ID among the files of a directory the queue is started on.
MaxStartID == 1

\* The frames of an existing segment file: at least one, MaxSegmentSize bytes
\* at most.
StartFrameSizes ==
    {fs \in UNION {[1 .. n -> FrameSizes] : n \in 1 .. DqSegmentSize} :
        Sum(fs) <= DqSegmentSize}

\* The events in the files of an existing directory are told apart from the
\* events published later by their numbers.
StartEvent(id, i) == 100 + 10 * id + i

RECURSIVE StartDir(_, _)
StartDir(f, id) ==
    IF id > MaxStartID THEN <<>>
    ELSE (IF f[id] = <<>> THEN <<>>
          ELSE <<[id |-> id,
                  frames |-> [i \in 1 .. Len(f[id]) |->
                                 [ev |-> StartEvent(id, i), size |-> f[id][i]]]]>>)
         \o StartDir(f, id + 1)

\* The directories a queue is started on: any of the segments 0..MaxStartID.
StartDirs == {StartDir(f, 0) : f \in [0 .. MaxStartID -> StartFrameSizes \cup {<<>>}]}

\* The positions a state file holds: written by an older version (no frame
\* index, read as 0), or after frameIndex frames of byteIndex bytes.
StartPositions ==
    {p \in [segmentID : 0 .. MaxStartID, frameIndex : 0 .. DqSegmentSize,
            byteIndex : 0 .. DqSegmentSize] :
        p.frameIndex = 0 \/ p.frameIndex <= p.byteIndex}

\* A position with a frame index that names an existing segment is at the end
\* of one of its frames.
StartConsistent(files, p) ==
    \A n \in 1 .. Len(files) :
        (files[n].id = p.segmentID /\ p.frameIndex > 0) =>
            /\ p.frameIndex <= Len(files[n].frames)
            /\ p.byteIndex = FrameBytes(SubSeq(files[n].frames, 1, p.frameIndex))

\* Before NewQueue, on one of the directories `dirs`.
StartupOn(dirs) ==
    /\ MemInit([events |-> MaxEventsSetting, maxGetRequest |-> MaxEventsSetting,
                flushTimeout |-> 0], 0, -1, [p \in Producers |-> TRUE])
    /\ dqStatus = "none"
    /\ dqSettings = NoDiskSettings
    /\ segFiles \in dirs
    /\ stateFile \in StartPositions
    /\ StartConsistent(segFiles, stateFile)
    /\ segments = NoSegments
    /\ acks = NoACKs
    /\ pendingFrames = <<>>
    /\ writeRequest = <<>>
    /\ blockedProducers = <<>>
    /\ outstanding = {}
    /\ dqHist = [NoHist EXCEPT !.maxCreated = NextSegmentID(segFiles) - 1,
                              !.startFiles = segFiles,
                              !.startPosition = stateFile]

\* Before NewQueue, on a directory left by earlier runs.
InitStartup == StartupOn(StartDirs)

\* NewQueue on the directory, then the consumers read and acknowledge what the
\* directory holds.
NextStartup ==
    \/ \E st \in RunDiskSettings : NewQueue(st)
    \/ ReadFrame
    \/ FinishSegment
    \/ \E f \in outstanding, written \in BOOLEAN : DiskDone(f, written)
    \/ DeleteSegment

SpecStartup == InitStartup /\ [][NextStartup]_vars


\* A directory whose segments were all acknowledged and deleted by earlier
\* runs of this version; the state file holds the position they reached.
InitReopen ==
    /\ InitStartup
    /\ segFiles = <<>>
    /\ stateFile.frameIndex > 0

SpecReopen == InitReopen /\ [][NextDisk]_vars

\* (segmentID, frameIndex, byteIndex) in lexicographic order.
PositionLE(a, b) ==
    \/ a.segmentID < b.segmentID
    \/ /\ a.segmentID = b.segmentID
       /\ \/ a.frameIndex < b.frameIndex
          \/ a.frameIndex = b.frameIndex /\ a.byteIndex <= b.byteIndex

\* C22: the position never moves backwards: not the position in the state
\* file, not the position of the running queue when frames are acknowledged,
\* and the position a queue starts with is not before the one in the state
\* file.
C22_PositionMonotone ==
    [][/\ PositionLE(stateFile, stateFile')
       /\ (dqStatus = "up" /\ dqStatus' = "up") => PositionLE(acks.position, acks'.position)
       /\ (dqStatus = "none" /\ dqStatus' = "up") => PositionLE(stateFile, acks'.position)]_vars


\* NewQueue has just returned the queue.
Started == dqStatus = "none" /\ dqStatus' = "up"

SeqRange(s) == {s[i] : i \in 1 .. Len(s)}

\* C23: NewQueue puts the existing segments with an ID below the persisted
\* position's segmentID on the acked list, in order, and all the others on the
\* reading list in ascending order of ID; no frame is read from a segment on
\* the acked list, and such a segment never gets onto the reading list.
C23_OlderSegmentsAcked ==
    [][/\ Started =>
            /\ segments'.acked =
                  SelectSeq(SegIDs(segFiles), LAMBDA id : id < stateFile.segmentID)
            /\ segments'.reading =
                  SelectSeq(SegIDs(segFiles), LAMBDA id : id >= stateFile.segmentID)
            /\ \A m, n \in 1 .. Len(segments'.reading) :
                  m < n => segments'.reading[m] < segments'.reading[n]
       /\ \A f \in outstanding' \ outstanding : f.seg \notin SeqRange(segments.acked)
       /\ \A id \in SeqRange(segments.acked) :
            id \notin SeqRange(segments'.reading \o segments'.writing \o segments'.acking)]_vars

\* The queue was started on a directory with segments older than the position
\* and others, and a frame of the others is with a consumer while an older
\* segment waits for the deleter.
C23_Witness ==
    /\ dqStatus = "up"
    /\ segments.acked # <<>>
    /\ \E f \in outstanding :
          /\ f.seg >= stateFile.segmentID
          /\ \A id \in SeqRange(segments.acked) : id < f.seg

\* The first segment that survives start-up: the first one not older than
\* the persisted position.
FirstSurviving ==
    SelectSeq(SegIDs(segFiles), LAMBDA id : id >= stateFile.segmentID)

\* C24 as stated: a position before the first surviving segment becomes that
\* segment's start; a position in the first surviving segment is kept as the
\* state file has it.
C24_PositionKeptAsPersisted ==
    [][(Started /\ FirstSurviving # <<>>) =>
          /\ stateFile.segmentID < FirstSurviving[1] =>
                /\ acks'.position =
                      [segmentID |-> FirstSurviving[1], frameIndex |-> 0, byteIndex |-> 0]
                /\ segments'.nextReadPosition = 0
          /\ stateFile.segmentID = FirstSurviving[1] =>
                /\ acks'.position = stateFile
                /\ segments'.nextReadPosition = stateFile.byteIndex]_vars

\* C24: a position before the first surviving segment becomes that segment's
\* start; a position in the first surviving segment keeps its frameIndex, and
\* its byteIndex unless the frameIndex is 0, when the byteIndex becomes 0.
C24_PositionAdvancedOrKept ==
    [][(Started /\ FirstSurviving # <<>>) =>
          /\ stateFile.segmentID < FirstSurviving[1] =>
                /\ acks'.position =
                      [segmentID |-> FirstSurviving[1], frameIndex |-> 0, byteIndex |-> 0]
                /\ segments'.nextReadPosition = 0
          /\ stateFile.segmentID = FirstSurviving[1] =>
                /\ acks'.position.segmentID = stateFile.segmentID
                /\ acks'.position.frameIndex = stateFile.frameIndex
                /\ acks'.position.byteIndex =
                      (IF stateFile.frameIndex > 0 THEN stateFile.byteIndex ELSE 0)
                /\ segments'.nextReadPosition = acks'.position.byteIndex]_vars

\* The queue has started on a directory whose first surviving segment is newer
\* than the persisted position, and nothing was read yet.
C24_Witness ==
    /\ dqStatus = "up"
    /\ segments.reading # <<>>
    /\ stateFile.segmentID < segments.reading[1]
    /\ acks.position = [segmentID |-> segments.reading[1], frameIndex |-> 0, byteIndex |-> 0]
    /\ segments.nextReadFrameID = 0

\* C25: a loaded position with frameIndex 0 has its byteIndex reset: the queue
\* starts reading at byte 0.  With frameIndex > 0 the loaded byteIndex is the
\* byte the queue starts reading at, wherever the loaded position is used
\* (it is not replaced by the start of a newer segment).
C25_LegacyByteIndexReset ==
    [][Started =>
          /\ stateFile.frameIndex = 0 =>
                /\ segments'.nextReadPosition = 0
                /\ acks'.position.byteIndex = 0
          /\ (stateFile.frameIndex > 0 /\ acks'.position.segmentID = stateFile.segmentID) =>
                /\ segments'.nextReadPosition = stateFile.byteIndex
                /\ acks'.position = stateFile]_vars

\* The state file of an older version, with a byteIndex and no frameIndex, on
\* a directory that still has the segment: the queue reads its first frame.
C25_Witness ==
    /\ dqStatus = "up"
    /\ stateFile.frameIndex = 0
    /\ stateFile.byteIndex > 0
    /\ \E f \in outstanding : f.seg = stateFile.segmentID /\ f.off = 0


\* ---------------------------------------------------------------------------
\* A frame with a failed checksum in a segment the queue is started on.

\* The directory d with the checksum of frame i of its n-th file broken.
CorruptFrame(d, n, i) ==
    [d EXCEPT ![n] = [@ EXCEPT !.frames = [@ EXCEPT ![i] = [@ EXCEPT !.ev = Corrupted]]]]

CorruptDirs ==
    {CorruptFrame(d, n, i) : <<d, n, i>> \in
        {t \in StartDirs \X (1 .. (MaxStartID + 1)) \X (1 .. DqSegmentSize) :
            /\ t[2] <= Len(t[1])
            /\ t[3] <= Len(t[1][t[2]].frames)}}

InitCorrupt == StartupOn(CorruptDirs)

SpecCorrupt == InitCorrupt /\ [][NextStartup]_vars

\* The number of frames of `file` that lie before the position the queue was
\* started with.
ReadStart(file) ==
    IF file.id = dqHist.startPosition.segmentID
    THEN dqHist.startPosition.frameIndex
    ELSE 0

\* Frame i of `file` is read from the start position on with no failed
\* checksum at or before it.
BeforeCorruption(file, i) ==
    /\ file.id >= dqHist.startPosition.segmentID
    /\ i > ReadStart(file)
    /\ \A j \in (ReadStart(file) + 1) .. i : file.frames[j].ev # Corrupted

FramesBeforeCorruption ==
    {dqHist.startFiles[n].frames[i].ev : <<n, i>> \in
        {t \in (1 .. Len(dqHist.startFiles)) \X (1 .. DqSegmentSize) :
            /\ t[2] <= Len(dqHist.startFiles[t[1]].frames)
            /\ BeforeCorruption(dqHist.startFiles[t[1]], t[2])}}

AllSegmentsRead == dqStatus = "up" /\ segments.reading = <<>>

\* C26: a frame whose checksum fails ends the read of its segment: the frames
\* before it are delivered, no frame at or after it is, and the queue stays up
\* with a reader that is never stopped: while a segment is left to read, the
\* reader can deliver a frame or go on with the next segment, or it waits for
\* the consumers to acknowledge.
C26_CorruptionTruncatesSegment ==
    /\ SeqRange(dqHist.deliveredRun) \subseteq FramesBeforeCorruption
    /\ AllSegmentsRead => SeqRange(dqHist.deliveredRun) = FramesBeforeCorruption
    /\ (dqStatus = "up" /\ segments.reading # <<>>) =>
           \/ ENABLED ReadFrame
           \/ ENABLED FinishSegment
           \/ Cardinality(outstanding) = MaxOutstanding
    /\ dqStatus # "error"

\* All segments are read; the first one had a frame before the failed checksum
\* and one behind it, and the frames of the next segment were delivered.
C26_Witness ==
    /\ AllSegmentsRead
    /\ Len(dqHist.startFiles) = 2
    /\ Len(dqHist.startFiles[1].frames) = 2
    /\ dqHist.startFiles[1].frames[2].ev = Corrupted
    /\ InSeq(dqHist.startFiles[1].frames[1].ev, dqHist.deliveredRun)
    /\ InSeq(dqHist.startFiles[2].frames[1].ev, dqHist.deliveredRun)


\* ---------------------------------------------------------------------------
\* The pipeline over the discarding queue of the pipeline tests.

\* makeDiscardQueue, producer: a new testProducer; producerID.Inc(), wg.Add(1).
discardProducer(pl) == [pl EXCEPT !.producerID = @ + 1, !.wg = @ + 1]

\* A testProducer whose cancel forgets wg.Done().
testProducerCloseNoDone(pl, c) ==
    [pl EXCEPT !.clients[c].producerCloses = @ + 1]

\* testProducer.Close of client c's producer: cancel calls wg.Done(), which
\* panics when the counter would become negative.
testProducerClose(pl, c) ==
    IF pl.wg = 0
    THEN [pl EXCEPT !.clients[c].producerCloses = @ + 1, !.panicked = TRUE]
    ELSE [pl EXCEPT !.clients[c].producerCloses = @ + 1, !.wg = @ - 1]

\* A client that closes its producer on every Close.
clientClosesProducerAlways(cl) == TRUE

\* Client.Close closes the client's queue producer when the client is open.
clientClosesProducer(cl) == cl.state = "open"

pipelineFrame ==
    /\ UNCHANGED <<memVars, dqVars, plClient, cfgVars>>

\* makePipeline(t, settings, makeDiscardQueue()).
makePipeline(st) ==
    /\ pipeline.status = "none"
    /\ pipeline' = [pipeline EXCEPT !.status = "open", !.settings = st]
    /\ pipelineFrame

\* Pipeline.ConnectWith(beat.ClientConfig{}): allocates a queue producer and
\* registers the client.
ConnectWith(c) ==
    /\ pipeline.status = "open"
    /\ ~pipeline.panicked
    /\ pipeline.clients[c].state = "none"
    /\ pipeline' = [discardProducer(pipeline) EXCEPT !.clients[c].state = "open"]
    /\ pipelineFrame

\* A client that goes on accepting events after Pipeline.Close.
clientAcceptsAfterClose(pl, c) == pl.clients[c].state = "open"

\* The client accepts new publishes: it is open and Pipeline.Close has not
\* broadcast to the clients.
clientAccepts(pl, c) == pl.clients[c].state = "open" /\ pl.status = "open"

\* Client.Publish: an open client of an open pipeline hands the event to its
\* producer, whose publish returns (count, true); a closed client, or a client
\* of a pipeline that was closed, does not accept the event.
ClientPublish(c) ==
    /\ ~pipeline.panicked
    /\ pipeline.clients[c].state \in {"open", "closed"}
    /\ pipeline.clients[c].published + pipeline.clients[c].refused < MaxPublishes
    /\ IF clientAccepts(pipeline, c)
       THEN pipeline' = [pipeline EXCEPT !.clients[c].published = @ + 1]
       ELSE pipeline' = [pipeline EXCEPT !.clients[c].refused = @ + 1]
    /\ pipelineFrame

\* The events of a client that are published and not acknowledged.
InFlight(cl) == cl.published - cl.acked

RECURSIVE InFlightUpTo(_, _)
InFlightUpTo(pl, n) ==
    IF n = 0 THEN 0 ELSE InFlight(pl.clients[n]) + InFlightUpTo(pl, n - 1)

\* The events of all clients that are published and not acknowledged.
AllInFlight(pl) == InFlightUpTo(pl, MaxClients)

\* A close that waits for the ACKs whatever the settings say.
closeWaitsAlways(st, mode, inflight) == inflight > 0

\* A close of the kind `mode` waits for in-flight ACKs: the settings ask for
\* it with a WaitClose above zero, and events are in flight.
closeWaits(st, mode, inflight) ==
    /\ st.WaitCloseMode = mode
    /\ st.WaitClose > 0
    /\ inflight > 0

\* Client c's Close completes: the events still in flight are abandoned and
\* the client's queue producer is closed.
clientClosed(pl, c) ==
    testProducerClose([pl EXCEPT !.clients[c].state = "closed",
                                 !.clients[c].abandoned = InFlight(pl.clients[c])], c)

\* Client.Close: with WaitOnClientClose the call waits for the in-flight ACKs.
ClientClose(c) ==
    /\ ~pipeline.panicked
    /\ pipeline.clients[c].state \in {"open", "closing", "closed"}
    /\ pipeline.clients[c].closes < MaxCloses
    /\ LET called == [pipeline EXCEPT !.clients[c].closes = @ + 1] IN
       IF clientClosesProducer(pipeline.clients[c])
       THEN IF closeWaits(pipeline.settings, "WaitOnClientClose",
                          InFlight(pipeline.clients[c]))
            THEN pipeline' = [called EXCEPT !.clients[c].state = "closing"]
            ELSE pipeline' = clientClosed(called, c)
       ELSE pipeline' = called
    /\ pipelineFrame

\* An ACK for an event of client c arrives; a Close of c that waited for the
\* last one completes.
ClientAck(c) ==
    /\ ~pipeline.panicked
    /\ InFlight(pipeline.clients[c]) > 0
    /\ LET got == [pipeline EXCEPT !.clients[c].acked = @ + 1] IN
       IF pipeline.clients[c].state = "closing" /\ InFlight(got.clients[c]) = 0
       THEN pipeline' = clientClosed(got, c)
       ELSE pipeline' = got
    /\ pipelineFrame

\* Time passes for a Close of client c that waits for ACKs; when WaitClose
\* has elapsed the Close completes.
ClientWaitElapsed(c) ==
    /\ ~pipeline.panicked
    /\ pipeline.clients[c].state = "closing"
    /\ LET later == [pipeline EXCEPT !.clients[c].waited = @ + 1] IN
       IF later.clients[c].waited >= pipeline.settings.WaitClose
       THEN pipeline' = clientClosed(later, c)
       ELSE pipeline' = later
    /\ pipelineFrame

\* Pipeline.Close: the clients stop accepting events; with WaitOnPipelineClose
\* the call waits for the in-flight ACKs; then the queue is closed, and
\* testQueue.Close waits in wg.Wait() for the producers.
PipelineClose ==
    /\ ~pipeline.panicked
    /\ pipeline.status = "open"
    /\ IF closeWaits(pipeline.settings, "WaitOnPipelineClose", AllInFlight(pipeline))
       THEN pipeline' = [pipeline EXCEPT !.status = "waiting"]
       ELSE pipeline' = [pipeline EXCEPT !.status = "closing"]
    /\ pipelineFrame

\* The last ACK Pipeline.Close waited for has arrived.
PipelineWaitDone ==
    /\ ~pipeline.panicked
    /\ pipeline.status = "waiting"
    /\ AllInFlight(pipeline) = 0
    /\ pipeline' = [pipeline EXCEPT !.status = "closing"]
    /\ pipelineFrame

\* Time passes for a Pipeline.Close that waits for ACKs; when WaitClose has
\* elapsed it goes on to close the queue.
PipelineWaitElapsed ==
    /\ ~pipeline.panicked
    /\ pipeline.status = "waiting"
    /\ pipeline' = [pipeline EXCEPT
                        !.waited = @ + 1,
                        !.status = IF pipeline.waited + 1 >= pipeline.settings.WaitClose
                                   THEN "closing" ELSE @]
    /\ pipelineFrame

\* wg.Wait() returns, and with it testQueue.Close and Pipeline.Close.
PipelineClosed ==
    /\ ~pipeline.panicked
    /\ pipeline.status = "closing"
    /\ pipeline.wg = 0
    /\ pipeline' = [pipeline EXCEPT !.status = "closed"]
    /\ pipelineFrame

InitPipeline ==
    InitWith([events |-> MaxEventsSetting, maxGetRequest |-> MaxEventsSetting,
              flushTimeout |-> 0], 0, -1, [p \in Producers |-> TRUE])

NextPipeline ==
    \/ makePipeline(ZeroSettings)
    \/ \E c \in PlClients : ConnectWith(c)
    \/ \E c \in PlClients : ClientPublish(c)
    \/ \E c \in PlClients : ClientClose(c)
    \/ PipelineClose
    \/ PipelineClosed

\* A wg.Wait() whose counter is zero returns.
SpecPipeline == InitPipeline /\ [][NextPipeline]_vars /\ WF_vars(PipelineClosed)

NoClientOpen == \A c \in PlClients : pipeline.clients[c].state # "open"

\* C27: whatever the number of connected clients, ConnectWith of one more
\* succeeds; a Publish of an open client of the open pipeline is accepted; and
\* once every client is closed a Pipeline.Close completes, with no producer
\* left that the queue waits for and without a panic.
C27_AnyNumberOfClients ==
    /\ [](\A c \in PlClients :
            (pipeline.status = "open" /\ pipeline.clients[c].state = "none")
                => ENABLED ConnectWith(c))
    /\ [][\A c \in PlClients :
            (pipeline.status = "open" /\ pipeline.clients[c].state = "open")
                => pipeline'.clients[c].refused = pipeline.clients[c].refused]_vars
    /\ (pipeline.status = "closing" /\ NoClientOpen) ~> (pipeline.status = "closed")
    /\ [](pipeline.status = "closed" => pipeline.wg = 0)
    /\ [](~pipeline.panicked)

\* Every client was connected, published its event and was closed, and
\* Pipeline.Close returned.
C27_Witness ==
    /\ pipeline.status = "closed"
    /\ \A c \in PlClients :
        /\ pipeline.clients[c].state = "closed"
        /\ pipeline.clients[c].published = MaxPublishes

\* C28: a Close of a client that is closed changes nothing, and the producer
\* of a client is closed once when the client is closed and never again.
C28_CloseIdempotent ==
    /\ [][\A c \in PlClients :
            (pipeline.clients[c].state = "closed"
                /\ pipeline'.clients[c].closes # pipeline.clients[c].closes)
            => pipeline' = [pipeline EXCEPT !.clients[c].closes = @ + 1]]_vars
    /\ [](\A c \in PlClients :
            /\ pipeline.clients[c].producerCloses <= 1
            /\ pipeline.clients[c].producerCloses = 1
                   <=> pipeline.clients[c].state = "closed")
    /\ [](pipeline.wg = Cardinality({c \in PlClients : pipeline.clients[c].state = "open"}))

\* A client was closed twice and its producer once.
C28_Witness ==
    \E c \in PlClients :
        /\ pipeline.clients[c].closes = 2
        /\ pipeline.clients[c].producerCloses = 1
        /\ ~pipeline.panicked


\* ---------------------------------------------------------------------------
\* Producers with and without an ACK callback on one queue.

\* Nothing is in flight: no call is running, no request is in the push
\* channel, and every inserted entry is acknowledged.
Quiescent ==
    /\ \A p \in Producers : pc[p] = "idle"
    /\ pushChan = <<>>
    /\ acked = head

\* C29: a producer without an ACK callback never gets a callback; the
\* callbacks of a tracking producer count only entries inserted for that
\* producer, and when nothing is in flight on a queue that was not closed they
\* sum to the number of its events that were accepted.
C29_UntrackedProducerFrame ==
    /\ \A p \in Producers : ~hasCB[p] => ackLog[p] = <<>>
    /\ \A p \in Producers : hasCB[p] => AckSum(p) <= inserted[p]
    /\ \A p \in Producers :
        (hasCB[p] /\ ~closing /\ Quiescent) =>
            /\ AckSum(p) = producedCount[p]
            /\ producedCount[p] = inserted[p]

\* A tracking and a non-tracking producer both had events accepted, and all
\* of them are acknowledged.
C29_Witness ==
    /\ hasCB[1] /\ ~hasCB[2]
    /\ inserted[1] >= 1 /\ inserted[2] >= 1
    /\ ~closing /\ Quiescent
    /\ AckSum(1) = inserted[1]


\* ---------------------------------------------------------------------------
\* Pipeline clients in DropIfFull mode on the memory queue.

\* Every producer belongs to a client with an ACK callback that publishes in
\* DropIfFull mode.
InitDropIfFull ==
    \E st \in SettingsSet, size \in GetSizes :
        /\ ClientInit(st, MaxCalls, size, [p \in Producers |-> TRUE], "DropIfFull")
        /\ NoDiskQueue

\* The clients publish with TryPublish only.
NextDropIfFull ==
    \/ \E p \in Producers : TryPublish(p)
    \/ \E p \in Producers : waitResp(p)
    \/ \E p \in Producers : waitQueueClosing(p)
    \/ HandleInsert
    \/ \E c \in Consumers : HandleGetRequest(c)
    \/ HandleTimeout
    \/ HandleAck
    \/ QueueClose
    \/ \E c \in Consumers : GetFail(c)
    \/ \E c \in Consumers : Done(c)

SpecDropIfFull == InitDropIfFull /\ [][NextDropIfFull]_vars

\* The events the clients counted as dropped, all together.
DroppedSum == Sum([p \in 1 .. Cardinality(Producers) |-> plClient[p].dropped])

\* The events the clients' ACK callbacks were told of, all together.
AckedSum == Sum([p \in 1 .. Cardinality(Producers) |-> AckSum(p)])

\* C30: an event that TryPublish refused is counted as dropped and in no ACK
\* callback: the events counted as dropped and the events counted by the
\* callbacks are different events of the calls made, and every call that
\* returned was either accepted or counted as dropped.
C30_DroppedNeverAcked ==
    /\ DroppedSum + AckedSum <= calls
    /\ (\A p \in Producers : pc[p] = "idle") =>
           DroppedSum + producedCount[1] + producedCount[2] = calls


\* C31: once Pipeline.Close has broadcast to the clients, no Publish of any
\* client hands an event to the queue: every such Publish is refused.
C31_NoPublishAfterPipelineClose ==
    [][\A c \in PlClients :
        pipeline.status \in {"waiting", "closing", "closed"} =>
            pipeline'.clients[c].published = pipeline.clients[c].published]_vars

\* A client that was still open published after Pipeline.Close and was
\* refused.
C31_Witness ==
    \E c \in PlClients :
        /\ pipeline.status \in {"waiting", "closing", "closed"}
        /\ pipeline.clients[c].state = "open"
        /\ pipeline.clients[c].refused = 1
        /\ pipeline.clients[c].published = 0


\* ---------------------------------------------------------------------------
\* Closing with events in flight: WaitClose and its policies.

\* Settings that wait on close where Load's do not.
LoadSettingsWait == [WaitClose |-> 1, WaitCloseMode |-> "WaitOnClientClose"]

\* The settings Load makes the pipeline with.
LoadSettings == [WaitClose |-> 0, WaitCloseMode |-> "NoWaitOnClose"]

WaitCloseModes == {"NoWaitOnClose", "WaitOnPipelineClose", "WaitOnClientClose"}

WaitSettings ==
    [WaitClose : 0 .. MaxWaitClose, WaitCloseMode : WaitCloseModes] \cup {LoadSettings}

\* The clients whose events are in flight when something is closed.
WaitClients == {1, 2}

NextWaitClose ==
    \/ \E st \in WaitSettings : makePipeline(st)
    \/ \E c \in WaitClients : ConnectWith(c)
    \/ \E c \in WaitClients : ClientPublish(c)
    \/ \E c \in WaitClients : ClientAck(c)
    \/ \E c \in WaitClients : ClientClose(c)
    \/ \E c \in WaitClients : ClientWaitElapsed(c)
    \/ PipelineClose
    \/ PipelineWaitDone
    \/ PipelineWaitElapsed
    \/ PipelineClosed

\* Time passes, and a wait whose condition holds returns.  Nothing obliges an
\* ACK to arrive or a caller to close anything.
FairnessWaitClose ==
    /\ WF_vars(\E c \in WaitClients : ClientWaitElapsed(c))
    /\ WF_vars(PipelineWaitDone)
    /\ WF_vars(PipelineWaitElapsed)
    /\ WF_vars(PipelineClosed)

SpecWaitClose == InitPipeline /\ [][NextWaitClose]_vars /\ FairnessWaitClose

\* The settings make no close wait for ACKs.
NoWaitSettings(st) ==
    \/ st.WaitClose = 0
    \/ st.WaitCloseMode = "NoWaitOnClose"
    \/ st = LoadSettings

NobodyWaits ==
    /\ pipeline.status # "waiting"
    /\ pipeline.waited = 0
    /\ \A c \in PlClients :
        /\ pipeline.clients[c].state # "closing"
        /\ pipeline.clients[c].waited = 0

\* C32: a close that waits for in-flight ACKs is over after WaitClose at the
\* latest, whether ACKs arrive or not, and the events still in flight are
\* then abandoned; with WaitClose = 0 or NoWaitOnClose, the settings of Load,
\* no close waits at all.
C32_CloseWaitsAtMostWaitClose ==
    /\ []<>(\A c \in PlClients : pipeline.clients[c].state # "closing")
    /\ []<>(pipeline.status # "waiting")
    /\ [](/\ pipeline.waited <= pipeline.settings.WaitClose
          /\ \A c \in PlClients :
                pipeline.clients[c].waited <= pipeline.settings.WaitClose)
    /\ [](NoWaitSettings(pipeline.settings) => NobodyWaits)
    /\ [][\A c \in PlClients :
            (pipeline.clients[c].state # "closed" /\ pipeline'.clients[c].state = "closed")
                => pipeline'.clients[c].abandoned =
                       pipeline'.clients[c].published - pipeline'.clients[c].acked]_vars

\* A Close waited for WaitClose, no ACK arrived, and it completed with the
\* event abandoned.
C32_Witness ==
    \E c \in PlClients :
        /\ pipeline.clients[c].state = "closed"
        /\ pipeline.clients[c].waited = pipeline.settings.WaitClose
        /\ pipeline.settings.WaitClose = MaxWaitClose
        /\ pipeline.clients[c].acked = 0
        /\ pipeline.clients[c].abandoned = 1


\* ---------------------------------------------------------------------------
\* Closing the memory queue with events pending.

\* C33: the events pending when the queue is closed are all accounted for
\* when shutdown completes: after Close no event is added, an entry leaves the
\* queue only acknowledged after it was delivered in a batch, and when the
\* Done channel is closed every accepted event was delivered in exactly one
\* batch and is acknowledged, so that none is left to be counted as dropped.
C33_PendingEventsAccountedFor ==
    /\ [](queueDone =>
            /\ closing
            /\ acked = head
            /\ \A id \in 0 .. (head - 1) : delivered[id] = 1)
    /\ [][closing =>
            /\ head' = head
            /\ \A id \in acked .. (acked' - 1) : delivered[id] = 1]_vars

\* Shutdown of a queue that was closed has completed, and all the events the
\* queue accepted were delivered, among them one whose Publish was in flight
\* when the queue closed and returned false.
C33_Witness ==
    /\ queueDone
    /\ head = MaxCalls
    /\ \A id \in 0 .. (head - 1) : delivered[id] = 1
    /\ \E p \in Producers : inserted[p] > producedCount[p]


C35_RefusedNeverInserted ==
    [][\A p \in Producers :
        (pc[p] \in {"wait", "trywait"} /\ pc'[p] = "idle" /\ eventsNil'[p])
            => resp[p] = <<>>]_vars


\* C36: after Producer.Close has returned, a later Publish or TryPublish on
\* that producer is refused at once: a call that starts on a closed producer
\* returns in the same step and never gets to wait for a response, so that its
\* request is not sent and nothing of it can be inserted or reported as
\* accepted.
C36_NoPublishAfterProducerClose ==
    [][\A p \in Producers :
        (stDone[p] /\ pc[p] = "idle") => pc'[p] = "idle"]_vars


\* C37: the producerIDs of an ACK-tracking producer used by one caller.  The
\* k-th event the broker inserts for the producer carries producerID k, so the
\* accepted events carry 1, 2, 3, ... in publish order and no ID twice; a
\* request waiting in the push channel carries the ID after the last inserted
\* one, whatever number of calls was refused before it; and producedCount
\* moves only when a call returns true (the response was received), by one.
C37_ProducerIDsInPublishOrder ==
    /\ [](\A p \in Producers : hasCB[p] =>
            /\ \A i \in DOMAIN pushChan :
                  pushChan[i].resp = p =>
                      /\ pushChan[i].producer = p
                      /\ pushChan[i].producerID = inserted[p] + 1
                      /\ pushChan[i].producerID = producedCount[p] + 1
            /\ producedCount[p] <= inserted[p]
            /\ inserted[p] <= producedCount[p] + 1)
    /\ [][\A p \in Producers : hasCB[p] =>
            /\ inserted'[p] # inserted[p] =>
                  /\ inserted'[p] = inserted[p] + 1
                  /\ buf'[Slot(head)].producer = p
                  /\ buf'[Slot(head)].producerID = inserted'[p]
            /\ producedCount'[p] =
                  IF pc[p] \in {"wait", "trywait"} /\ pc'[p] = "idle"
                     /\ resp[p] # <<>> /\ eventsNil'[p] = eventsNil[p]
                  THEN producedCount[p] + 1
                  ELSE producedCount[p]]_vars

\* All calls were made and one of them was refused; two events of an
\* ACK-tracking producer were accepted and are in the ring with the
\* producerIDs 1 and 2.
C37_Witness ==
    /\ calls = MaxCalls
    /\ \A q \in Producers : pc[q] = "idle"
    /\ \E p \in Producers :
        /\ hasCB[p]
        /\ inserted[p] = 2
        /\ producedCount[p] = 2
        /\ head = 2
        /\ acked = 0
        /\ buf[Slot(0)].producerID = 1
        /\ buf[Slot(1)].producerID = 2


\* C38: NewQueue leaves a byte offset (segments.nextReadPosition) or a frame
\* index (the position given to the ACK tracker) other than zero only when the
\* first segment of the reading list is the segment the persisted position
\* names; with no such segment the next segment is read from its beginning.
C38_OffsetOnlyIntoPersistedSegment ==
    [][(dqStatus = "none" /\ dqStatus' = "up") =>
          ((segments'.nextReadPosition # 0 \/ acks'.position.frameIndex # 0) =>
              /\ segments'.reading # <<>>
              /\ segments'.reading[1] = stateFile.segmentID)]_vars


\* The settings NewQueue is given when the file system may fail: segments of
\* DqSegmentSize bytes and every buffer size up to twice that.
FaultSettings ==
    {st \in AllDiskSettings :
        st.MaxSegmentSize = DqSegmentSize /\ st.MaxBufferSize <= 2 * DqSegmentSize}

\* NewQueue on a directory left by earlier runs, with any settings of
\* FaultSettings and any behaviour of the file system; after a failed or
\* successful start the process may stop and NewQueue is called again.
NextStartupFaults ==
    \/ \E st \in FaultSettings, io \in StartupFaults : NewQueueIO(st, io)
    \/ Crash

SpecStartupFaults == InitStartup /\ [][NextStartupFaults]_vars

\* A buffer smaller than twice the segment size.
Misconfigured(st) == st.MaxBufferSize < 2 * st.MaxSegmentSize

\* The first segment file of the directory, or 0 in an empty directory.
OldestSegment == IF segFiles = <<>> THEN 0 ELSE segFiles[1].id

\* The start-up policy for a NewQueue step, with `bad` telling whether the
\* settings count as misconfigured.  A failure to create the directory or to
\* open the state file for writing, or bad settings, give an error, no
\* queue and no running loop.  Otherwise, when the segment files can be
\* listed, the queue runs; with a state file that is missing or unreadable
\* it reads every segment file from the beginning of the oldest one, and with
\* a state file whose position lies before the oldest segment as well.
StartupPolicy(bad) ==
    LET io == dqHist'.faults IN
    /\ (bad \/ io.mkdir \/ io.open) =>
          /\ dqStatus' = "error"
          /\ segments' = NoSegments
          /\ acks' = NoACKs
    /\ (~bad /\ ~io.mkdir /\ ~io.open /\ ~io.scan) =>
          /\ dqStatus' = "up"
          /\ (io.load # "ok" \/ stateFile.segmentID < OldestSegment) =>
                /\ segments'.reading = SegIDs(segFiles)
                /\ segments'.acked = <<>>
                /\ segments'.nextReadPosition = 0
                /\ acks'.position = [segmentID |-> OldestSegment,
                                     frameIndex |-> 0, byteIndex |-> 0]

\* C39: the start-up error policy.  A missing, unreadable or stale state file
\* is no error: NewQueue returns a running queue that starts from the oldest
\* existing segment.  A state file that cannot be opened for writing, a
\* directory that cannot be created, or a MaxBufferSize below twice the
\* MaxSegmentSize give an error, no queue and no running loop.
C39_StartupErrorPolicy ==
    [][dqStatus = "none" /\ dqStatus' # "none"
          => StartupPolicy(Misconfigured(dqSettings'))]_vars

\* The same policy for the settings NewQueue itself rejects (checked beside
\* C39: everything but the buffer sizes the settings check lets through).
StartupPolicyOfRejected ==
    [][dqStatus = "none" /\ dqStatus' # "none"
          => StartupPolicy(SettingsRejected(dqSettings'))]_vars

\* A failed start leaves nothing running: no loop has a step to take.
FailedStartRunsNothing ==
    dqStatus = "error" =>
        /\ segments = NoSegments
        /\ acks = NoACKs
        /\ ~ENABLED ReadFrame
        /\ ~ENABLED FinishSegment
        /\ ~ENABLED DeleteSegment


\* ------------------------------------------- docker autodiscover Config

\* The longest prefix a user configures.
MaxPrefixLen == 4

\* The characters of the configured prefixes.
PrefixChars == {"c", "o", "."}

\* Every string of up to MaxPrefixLen characters, the empty one included.
Prefixes == UNION {[1 .. n -> PrefixChars] : n \in 0 .. MaxPrefixLen}

\* defaultConfig().Prefix: "co.elastic".
defaultPrefix == <<"c", "o", ".", "e", "l", "a", "s", "t", "i", "c">>

\* defaultConfig(): the Config before the user's settings are unpacked into it.
defaultConfig == [status |-> "new", Prefix |-> defaultPrefix]

\* The Configs Validate is called on: the default one, and the default one
\* with the user's prefix, among them the default prefix written with a dot
\* at its end.
Configs ==
    {defaultConfig}
        \cup {[defaultConfig EXCEPT !.Prefix = p] :
                 p \in Prefixes \cup {Append(defaultPrefix, ".")}}

\* s ends with a '.'.
EndsWithDot(s) == Len(s) > 0 /\ s[Len(s)] = "."

\* Validate on a prefix that is not empty:
\* if c.Prefix[len(c.Prefix)-1] == '.' && c.Prefix != "." {
\*     c.Prefix = c.Prefix[:len(c.Prefix)-2] }
ValidatePrefix(p) ==
    IF p[Len(p)] = "." /\ p # <<".">> THEN SubSeq(p, 1, Len(p) - 2) ELSE p

\* (*Config).Validate.  Indexing the empty prefix panics (index out of range).
Validate ==
    /\ config.status = "new"
    /\ config' = IF Len(config.Prefix) = 0
                 THEN [config EXCEPT !.status = "panic"]
                 ELSE [status |-> "valid", Prefix |-> ValidatePrefix(config.Prefix)]
    /\ UNCHANGED <<memVars, dqVars, plVars>>

\* A Config was made and the user's settings unpacked; no queue is under test.
InitValidate ==
    /\ QueueInit([events |-> MaxEventsSetting, maxGetRequest |-> MaxEventsSetting,
                  flushTimeout |-> 0], 0, -1, [p \in Producers |-> TRUE], "none")
    /\ NoDiskQueue
    /\ config \in Configs

NextValidate == Validate

SpecValidate == InitValidate /\ [][NextValidate]_vars

\* The prefix without its last character when that is a '.'.
TrailingDotRemoved(s) == IF EndsWithDot(s) THEN SubSeq(s, 1, Len(s) - 1) ELSE s

\* C40: for every Prefix that is neither empty nor ".", after Validate the
\* Prefix does not end with '.', and it is the original Prefix with only its
\* trailing '.' removed (the original Prefix when it had none).
C40_ValidateRemovesTrailingDot ==
    [][(config.status = "new" /\ config'.status # "new"
            /\ config.Prefix # <<>> /\ config.Prefix # <<".">>)
          => /\ config'.status = "valid"
             /\ ~EndsWithDot(config'.Prefix)
             /\ config'.Prefix = TrailingDotRemoved(config.Prefix)]_vars

\* What Validate does guarantee (checked beside C40): a prefix without a
\* trailing '.' is unchanged, and no call on a prefix that is not empty panics.
ValidateKeepsPrefixWithoutDot ==
    [][(config.status = "new" /\ config'.status # "new" /\ config.Prefix # <<>>)
          => /\ config'.status = "valid"
             /\ ~EndsWithDot(config.Prefix) => config'.Prefix = config.Prefix]_vars

====
